---- MODULE Spec2Model ----
(***************************************************************************)
(* A model of the adaptive learner model (userProfile.py) and of the       *)
(* question block parser and the question quality scorers                  *)
(* (evaluation_metrics.py, main.py) of the DOTG framework.                 *)
(*                                                                         *)
(* Numbers.  In the learner model, Python ints and floats that take part   *)
(* in a division are exact rationals <<n, d>> with d > 0 in lowest terms;  *)
(* a pair with d = 0 stands for "the expression raised" (n names the       *)
(* exception); IEEE rounding is not modelled there.  The scores of the     *)
(* scorers are IEEE 754 doubles, rounded as Python rounds them.            *)
(***************************************************************************)
EXTENDS Integers, Sequences, FiniteSets, TLC

VARIABLES
    profile,   \* the UserProfile object of the session (its __dict__)
    disk,      \* the file user_profile_<user_id>.json
    op,        \* the method that ran last
    ret,       \* what that call returned
    raised,    \* the exception that call raised, "none" if it returned
    clock,     \* datetime.now(), in ticks
    block,     \* the text handed to parse_question_block
    parsed,    \* the record parse_question_block returned for it
    args,      \* the arguments handed to a scorer function
    scorer,    \* the scorer function that ran, "none" before the call
    metrics,   \* the dict that call returned
    files,     \* the texts of the questions file and the knowledge base file
    aggregate, \* what evaluate_question_set_comprehensive returned for them
    session,   \* what evaluate_session_questions computed for the questions
    heap,      \* the lists and dicts that UserProfile objects refer to
    objects,   \* the UserProfile objects that main.py holds, by the name bound
    run        \* where a call of interactive_user_session stands

vars ==
    <<profile, disk, op, ret, raised, clock, block, parsed, args, scorer,
      metrics, files, aggregate, session, heap, objects, run>>

profileVars == <<profile, disk, op, ret, raised, clock>>
parserVars == <<block, parsed>>
scorerVars == <<args, scorer, metrics>>
batchVars == <<files, aggregate, session>>
objectVars == <<heap, objects>>
driverVars == <<run>>

-----------------------------------------------------------------------------
(* Bounds of the model *)

\* responses recorded in one profile
MaxHist == 2

\* calls of datetime.now() in one run
MaxClock == 2

-----------------------------------------------------------------------------
(* Python values *)

\* Python's None, and an optional value: <<>> is None, <<v>> is v
None == <<>>

Some(v) == <<v>>

\* bool(x) of an optional number: None and 0 are falsy
Truthy(x) == x # None /\ x[1] # 0

-----------------------------------------------------------------------------
(* Exact rational arithmetic *)

Abs(n) == IF n < 0 THEN -n ELSE n

RECURSIVE GCD(_, _)
GCD(a, b) == IF b = 0 THEN a ELSE GCD(b, a % b)

\* n/d in lowest terms with a positive denominator (d # 0)
Norm(n, d) ==
    LET g == GCD(Abs(n), Abs(d))
        s == IF d < 0 THEN -1 ELSE 1
    IN  <<(s * n) \div g, (s * d) \div g>>

R(n) == <<n, 1>>

\* the exceptions an arithmetic expression can raise
ZeroDivisionError == <<1, 0>>
KeyError == <<2, 0>>

Raises(x) == x[2] = 0

ExcName(x) ==
    IF x = ZeroDivisionError THEN "ZeroDivisionError"
    ELSE IF x = KeyError THEN "KeyError"
    ELSE "none"

\* x + y, x * y, x / y, -x; an operand that raised propagates
RAdd(x, y) ==
    IF Raises(x) THEN x ELSE IF Raises(y) THEN y
    ELSE Norm(x[1] * y[2] + y[1] * x[2], x[2] * y[2])

RMul(x, y) ==
    IF Raises(x) THEN x ELSE IF Raises(y) THEN y
    ELSE Norm(x[1] * y[1], x[2] * y[2])

RDiv(x, y) ==
    IF Raises(x) THEN x ELSE IF Raises(y) THEN y
    ELSE IF y[1] = 0 THEN ZeroDivisionError
    ELSE Norm(x[1] * y[2], x[2] * y[1])

RNeg(x) == IF Raises(x) THEN x ELSE <<-x[1], x[2]>>

RLt(x, y) == x[1] * y[2] < y[1] * x[2]

RLe(x, y) == x[1] * y[2] <= y[1] * x[2]

\* Python's min(a, b) and max(a, b): the first argument unless the second
\* is strictly smaller (larger)
RMin(a, b) ==
    IF Raises(a) THEN a ELSE IF Raises(b) THEN b
    ELSE IF RLt(b, a) THEN b ELSE a

RMax(a, b) ==
    IF Raises(a) THEN a ELSE IF Raises(b) THEN b
    ELSE IF RLt(a, b) THEN b ELSE a

RECURSIVE SumSeq(_)
SumSeq(s) == IF s = <<>> THEN 0 ELSE Head(s) + SumSeq(Tail(s))

\* sum(1 for r in history if r["correct"])
RECURSIVE CountCorrect(_)
CountCorrect(h) ==
    IF h = <<>> THEN 0
    ELSE (IF Head(h).correct THEN 1 ELSE 0) + CountCorrect(Tail(h))

-----------------------------------------------------------------------------
(* UserProfile: construction and the skill update (userProfile.py) *)

InitialSkill == 1500

MinSkill == 800

MaxSkill == 2200

BaseK == 30

DefaultAvgTime == 30

ConfidenceScale == 5

\* UserProfile.__init__
NewProfile(user_id) ==
    [ user_id             |-> user_id,
      performance_history |-> <<>>,
      skill_level         |-> R(InitialSkill),
      topics_mastery      |-> <<>>,
      response_times      |-> <<>>,
      accuracy_rate       |-> R(0),
      current_difficulty  |-> "medium",
      confidence_scores   |-> <<>> ]

\* difficulty_multipliers = {"easy": 0.8, "medium": 1.0, "hard": 1.2}
DifficultyMultipliers ==
    [easy |-> <<4, 5>>, medium |-> <<1, 1>>, hard |-> <<6, 5>>]

\* the lookup as difficulty_multipliers[difficulty]: an unknown key raises
MultiplierStrict(difficulty) ==
    IF difficulty \in DOMAIN DifficultyMultipliers
    THEN DifficultyMultipliers[difficulty]
    ELSE KeyError

\* difficulty_multipliers.get(difficulty, 1.0)
Multiplier(difficulty) ==
    IF difficulty \in DOMAIN DifficultyMultipliers
    THEN DifficultyMultipliers[difficulty]
    ELSE R(1)

\* base_change = 30 * multiplier
BaseChange(difficulty) == RMul(R(BaseK), Multiplier(difficulty))

\* avg_time = sum(response_times) / len(response_times) if response_times else 30
AvgTime(response_times) ==
    IF response_times # <<>>
    THEN RDiv(R(SumSeq(response_times)), R(Len(response_times)))
    ELSE R(DefaultAvgTime)

\* the time factor without the test of time_taken
TimeFactorUnguarded(response_times, time_taken) ==
    RMax(<<1, 2>>, RMin(<<3, 2>>, RDiv(AvgTime(response_times), R(time_taken))))

\* time_factor = max(0.5, min(1.5, avg_time / time_taken)) if time_taken > 0 else 1.0
TimeFactor(response_times, time_taken) ==
    IF time_taken > 0
    THEN RMax(<<1, 2>>, RMin(<<3, 2>>, RDiv(AvgTime(response_times), R(time_taken))))
    ELSE R(1)

\* confidence_factor = (confidence / 5.0) if confidence else 1.0
ConfidenceFactor(confidence) ==
    IF Truthy(confidence)
    THEN RDiv(R(confidence[1]), R(ConfidenceScale))
    ELSE R(1)

\* the skill change without the sign of an incorrect response
SkillChangeAlwaysGain(response_times, correct, difficulty, time_taken, confidence) ==
    RMul(RMul(BaseChange(difficulty),
              IF correct THEN TimeFactor(response_times, time_taken) ELSE R(1)),
         ConfidenceFactor(confidence))

\* the skill change with the time factor applied to an incorrect response too
SkillChangeTimedPenalty(response_times, correct, difficulty, time_taken, confidence) ==
    RMul(RMul(IF correct THEN BaseChange(difficulty)
              ELSE RNeg(BaseChange(difficulty)),
              TimeFactor(response_times, time_taken)),
         ConfidenceFactor(confidence))

\* skill_change, for a correct and for an incorrect response
SkillChange(response_times, correct, difficulty, time_taken, confidence) ==
    IF correct
    THEN RMul(RMul(BaseChange(difficulty), TimeFactor(response_times, time_taken)),
              ConfidenceFactor(confidence))
    ELSE RMul(RNeg(BaseChange(difficulty)), ConfidenceFactor(confidence))

\* the clamp without its upper bound
ClampSkillNoUpper(x) == RMax(R(MinSkill), x)

\* max(800, min(2200, x))
ClampSkill(x) == RMax(R(MinSkill), RMin(R(MaxSkill), x))

\* the skill update with avg_time taken over the response times that came
\* before this call
UpdateSkillLevelEarlierTimes(p, correct, difficulty, time_taken, confidence) ==
    LET earlier == SubSeq(p.response_times, 1, Len(p.response_times) - 1)
        change == SkillChange(earlier, correct, difficulty, time_taken, confidence)
    IN  ClampSkill(RAdd(p.skill_level, change))

\* UserProfile._update_skill_level: the new skill_level (or what it raised).
\* avg_time is evaluated before time_taken is tested, as in the source.
UpdateSkillLevel(p, correct, difficulty, time_taken, confidence) ==
    LET avg == AvgTime(p.response_times)
        change == SkillChange(p.response_times, correct, difficulty,
                              time_taken, confidence)
    IN  IF Raises(avg) THEN avg
        ELSE ClampSkill(RAdd(p.skill_level, change))

\* the mastery update that counts every response as correct
UpdateMasteryAlwaysCorrect(tm, topic, correct) ==
    LET old == IF topic \in DOMAIN tm THEN tm[topic]
               ELSE [correct |-> 0, total |-> 0]
        new == [correct |-> old.correct + 1, total |-> old.total + 1]
    IN  [t \in DOMAIN tm \cup {topic} |-> IF t = topic THEN new ELSE tm[t]]

\* the mastery update that starts the topic's entry afresh on every response
UpdateMasteryReset(tm, topic, correct) ==
    LET new == [correct |-> IF correct THEN 1 ELSE 0, total |-> 1]
    IN  [t \in DOMAIN tm \cup {topic} |-> IF t = topic THEN new ELSE tm[t]]

\* the topic mastery dict after one more response on topic
UpdateMastery(tm, topic, correct) ==
    LET old == IF topic \in DOMAIN tm THEN tm[topic]
               ELSE [correct |-> 0, total |-> 0]
        new == [correct |-> old.correct + (IF correct THEN 1 ELSE 0),
                total   |-> old.total + 1]
    IN  [t \in DOMAIN tm \cup {topic} |-> IF t = topic THEN new ELSE tm[t]]

\* the accuracy computed before the new event is counted
AccuracyRateStale(history) ==
    IF Len(history) > 1
    THEN RDiv(R(CountCorrect(SubSeq(history, 1, Len(history) - 1))),
              R(Len(history) - 1))
    ELSE R(0)

\* accuracy_rate = correct_count / total if total > 0 else 0.0
AccuracyRate(history) ==
    IF Len(history) > 0
    THEN RDiv(R(CountCorrect(history)), R(Len(history)))
    ELSE R(0)

\* the event add_response appends
Event(now, question_id, correct, time_taken, difficulty, topic, confidence) ==
    [ timestamp   |-> now,
      question_id |-> question_id,
      correct     |-> correct,
      time_taken  |-> time_taken,
      difficulty  |-> difficulty,
      topic       |-> topic,
      confidence  |-> confidence ]

\* the recording with the event inserted at the front of the history
RecordedPrepend(p, now, question_id, correct, time_taken, difficulty, topic, confidence) ==
    LET h == <<[ timestamp |-> now, question_id |-> question_id,
                 correct |-> correct, time_taken |-> time_taken,
                 difficulty |-> difficulty, topic |-> topic,
                 confidence |-> confidence ]>> \o p.performance_history
    IN  [ p EXCEPT
            !.performance_history = h,
            !.response_times = Append(p.response_times, time_taken),
            !.topics_mastery = UpdateMastery(p.topics_mastery, topic, correct),
            !.accuracy_rate = AccuracyRate(h),
            !.confidence_scores =
                IF Truthy(confidence) THEN Append(p.confidence_scores, confidence[1])
                ELSE p.confidence_scores ]

\* the profile after the statements of add_response that precede the skill update
Recorded(p, now, question_id, correct, time_taken, difficulty, topic, confidence) ==
    LET h == Append(p.performance_history,
                    Event(now, question_id, correct, time_taken, difficulty,
                          topic, confidence))
    IN  [ p EXCEPT
            !.performance_history = h,
            !.response_times = Append(p.response_times, time_taken),
            !.topics_mastery = UpdateMastery(p.topics_mastery, topic, correct),
            !.accuracy_rate = AccuracyRate(h),
            !.confidence_scores =
                IF Truthy(confidence) THEN Append(p.confidence_scores, confidence[1])
                ELSE p.confidence_scores ]

\* UserProfile.add_response; a raise in the skill update leaves what was
\* recorded before it
AddResponse(question_id, correct, time_taken, difficulty, topic, confidence) ==
    /\ Len(profile.performance_history) < MaxHist
    /\ clock < MaxClock
    /\ LET p1 == Recorded(profile, clock, question_id, correct, time_taken,
                          difficulty, topic, confidence)
           s  == UpdateSkillLevel(p1, correct, difficulty, time_taken, confidence)
       IN  /\ profile' = IF Raises(s) THEN p1 ELSE [p1 EXCEPT !.skill_level = s]
           /\ raised' = ExcName(s)
    /\ clock' = clock + 1
    /\ op' = "add_response"
    /\ ret' = None
    /\ UNCHANGED <<disk, parserVars, scorerVars, batchVars, objectVars, driverVars>>

\* UserProfile.get_stats
Stats(p) ==
    [ user_id            |-> p.user_id,
      skill_level        |-> p.skill_level,
      accuracy_rate      |-> p.accuracy_rate,
      avg_response_time  |-> IF p.response_times # <<>>
                             THEN RDiv(R(SumSeq(p.response_times)),
                                       R(Len(p.response_times)))
                             ELSE R(0),
      topics_mastery     |-> p.topics_mastery,
      current_difficulty |-> p.current_difficulty,
      total_questions    |-> Len(p.performance_history) ]

\* get_stats that also empties response_times once it has averaged them
GetStatsClearing ==
    /\ ret' = Some(Stats(profile))
    /\ op' = "get_stats"
    /\ raised' = "none"
    /\ profile' = [profile EXCEPT !.response_times = <<>>]
    /\ UNCHANGED <<disk, clock, parserVars, scorerVars, batchVars, objectVars, driverVars>>

GetStats ==
    /\ ret' = Some(Stats(profile))
    /\ op' = "get_stats"
    /\ raised' = "none"
    /\ UNCHANGED <<profile, disk, clock, parserVars, scorerVars, batchVars, objectVars, driverVars>>

\* main.py: user_profile.current_difficulty = difficulty
SetDifficulty(difficulty) ==
    /\ profile' = [profile EXCEPT !.current_difficulty = difficulty]
    /\ op' = "set_difficulty"
    /\ ret' = None
    /\ raised' = "none"
    /\ UNCHANGED <<disk, clock, parserVars, scorerVars, batchVars, objectVars, driverVars>>

-----------------------------------------------------------------------------
(* JSON: what json.dump writes for a Python value and what json.load reads *)

JNull == [type |-> "null"]

JBool(b) == [type |-> IF b THEN "true" ELSE "false"]

JInt(n) == [type |-> "int", int |-> n]

JFloat(x) == [type |-> "float", num |-> x]

JString(s) == [type |-> "string", str |-> s]

JArray(items) == [type |-> "array", items |-> items]

JObject(members) == [type |-> "object", members |-> members]

\* a text that is no JSON document
Garbage == [type |-> "garbage"]

\* json.dump turns a dict key into a string; a str key is kept
JsonKey(k) == k

\* the encoder that writes 0 for None
DumpOptIntZero(v) == IF v = None THEN JInt(0) ELSE JInt(v[1])

\* encoders, by the Python type of the value
DumpOptInt(v) == IF v = None THEN JNull ELSE JInt(v[1])

DumpInts(s) == JArray([i \in 1..Len(s) |-> JInt(s[i])])

DumpEvent(e) ==
    JObject([ timestamp   |-> JString(e.timestamp),
              question_id |-> JString(e.question_id),
              correct     |-> JBool(e.correct),
              time_taken  |-> JInt(e.time_taken),
              difficulty  |-> JString(e.difficulty),
              topic       |-> JString(e.topic),
              confidence  |-> DumpOptInt(e.confidence) ])

DumpMastery(m) ==
    JObject([correct |-> JInt(m.correct), total |-> JInt(m.total)])

DumpEvents(h) == JArray([i \in 1..Len(h) |-> DumpEvent(h[i])])

\* the topic mastery dict, its keys turned into strings
DumpTopics(tm) ==
    JObject([k \in {JsonKey(t) : t \in DOMAIN tm} |->
                DumpMastery(tm[CHOOSE t \in DOMAIN tm : JsonKey(t) = k])])

\* json.dump(self.__dict__, f, indent=2)
JsonDump(p) ==
    JObject([ user_id             |-> JString(p.user_id),
              performance_history |-> DumpEvents(p.performance_history),
              skill_level         |-> JFloat(p.skill_level),
              topics_mastery      |-> DumpTopics(p.topics_mastery),
              response_times      |-> DumpInts(p.response_times),
              accuracy_rate       |-> JFloat(p.accuracy_rate),
              current_difficulty  |-> JString(p.current_difficulty),
              confidence_scores   |-> DumpInts(p.confidence_scores) ])

\* decoders: the Python value json.load builds from a JSON value
LoadStr(j) == j.str

LoadInt(j) == j.int

LoadFloat(j) == j.num

LoadBool(j) == j.type = "true"

LoadOptInt(j) == IF j.type = "null" THEN None ELSE Some(j.int)

LoadInts(j) == [i \in 1..Len(j.items) |-> LoadInt(j.items[i])]

LoadEvent(j) ==
    [ timestamp   |-> LoadStr(j.members.timestamp),
      question_id |-> LoadStr(j.members.question_id),
      correct     |-> LoadBool(j.members.correct),
      time_taken  |-> LoadInt(j.members.time_taken),
      difficulty  |-> LoadStr(j.members.difficulty),
      topic       |-> LoadStr(j.members.topic),
      confidence  |-> LoadOptInt(j.members.confidence) ]

LoadMastery(j) ==
    [correct |-> LoadInt(j.members.correct), total |-> LoadInt(j.members.total)]

LoadEvents(j) == [i \in 1..Len(j.items) |-> LoadEvent(j.items[i])]

LoadTopics(j) == [k \in DOMAIN j.members |-> LoadMastery(j.members[k])]

\* the value json.load gives the attribute named f
LoadField(f, j) ==
    CASE f = "user_id"             -> LoadStr(j)
      [] f = "performance_history" -> LoadEvents(j)
      [] f = "skill_level"         -> LoadFloat(j)
      [] f = "topics_mastery"      -> LoadTopics(j)
      [] f = "response_times"      -> LoadInts(j)
      [] f = "accuracy_rate"       -> LoadFloat(j)
      [] f = "current_difficulty"  -> LoadStr(j)
      [] f = "confidence_scores"   -> LoadInts(j)

\* profile.__dict__.update(data), data a JSON object
DictUpdate(p, data) ==
    [f \in DOMAIN p |->
        IF f \in DOMAIN data.members THEN LoadField(f, data.members[f]) ELSE p[f]]

-----------------------------------------------------------------------------
(* UserProfile.save and UserProfile.load; the file system *)

Absent == [kind |-> "absent", text |-> JNull]

\* a file the process may neither read nor write
Unreadable == [kind |-> "unreadable", text |-> JNull]

File(text) == [kind |-> "file", text |-> text]

\* UserProfile.save: open(..., "w") and json.dump
SaveResult(p, d) ==
    IF d.kind = "unreadable"
    THEN [exc |-> "PermissionError", disk |-> d]
    ELSE [exc |-> "none", disk |-> File(JsonDump(p))]

Save ==
    /\ LET r == SaveResult(profile, disk)
       IN  /\ disk' = r.disk
           /\ raised' = r.exc
    /\ op' = "save"
    /\ ret' = None
    /\ UNCHANGED <<profile, clock, parserVars, scorerVars, batchVars, objectVars, driverVars>>

\* UserProfile.load: only FileNotFoundError is caught
LoadResult(user_id, d) ==
    IF d.kind = "absent"
    THEN [exc |-> "none", profile |-> Some(NewProfile(user_id))]
    ELSE IF d.kind = "unreadable"
    THEN [exc |-> "PermissionError", profile |-> None]
    ELSE IF d.text.type = "garbage"
    THEN [exc |-> "JSONDecodeError", profile |-> None]
    ELSE IF d.text.type # "object"
    THEN [exc |-> "TypeError", profile |-> None]
    ELSE [exc |-> "none", profile |-> Some(DictUpdate(NewProfile(user_id), d.text))]

\* user_profile = UserProfile.load(user_id): the session goes on with the
\* object load returned; when load raises the old object stays
Load ==
    /\ LET r == LoadResult(profile.user_id, disk)
       IN  /\ profile' = IF r.exc = "none" THEN r.profile[1] ELSE profile
           /\ ret' = r.profile
           /\ raised' = r.exc
    /\ op' = "load"
    /\ UNCHANGED <<disk, clock, parserVars, scorerVars, batchVars, objectVars, driverVars>>

\* what something other than save can leave in the file
CorruptTexts == {Garbage, JArray(<<JInt(1)>>), JObject(<<>>)}

FileRemoved ==
    /\ disk.kind # "absent"
    /\ disk' = Absent
    /\ op' = "env"
    /\ UNCHANGED <<profile, ret, raised, clock, parserVars, scorerVars, batchVars, objectVars, driverVars>>

FileCorrupted(text) ==
    /\ disk.kind = "file"
    /\ disk' = File(text)
    /\ op' = "env"
    /\ UNCHANGED <<profile, ret, raised, clock, parserVars, scorerVars, batchVars, objectVars, driverVars>>

PermissionsRevoked ==
    /\ disk.kind = "file"
    /\ disk' = Unreadable
    /\ op' = "env"
    /\ UNCHANGED <<profile, ret, raised, clock, parserVars, scorerVars, batchVars, objectVars, driverVars>>

-----------------------------------------------------------------------------
(* Question block parser (evaluation_metrics.py).  A text is a sequence of *)
(* one-character strings; each regular expression of the source is        *)
(* translated to the leftmost match re.search finds for it.                *)

Space == {" ", "\n", "\t", "\r"}

ColonSpace == Space \cup {":"}

Digits == {"0", "1", "2", "3", "4", "5", "6", "7", "8", "9"}

OptionLetters == {"A", "B", "C", "D"}

UpperCase ==
    <<"A", "B", "C", "D", "E", "F", "G", "H", "I", "J", "K", "L", "M",
      "N", "O", "P", "Q", "R", "S", "T", "U", "V", "W", "X", "Y", "Z">>

LowerCase ==
    <<"a", "b", "c", "d", "e", "f", "g", "h", "i", "j", "k", "l", "m",
      "n", "o", "p", "q", "r", "s", "t", "u", "v", "w", "x", "y", "z">>

\* str.lower and str.upper of one character
Lower(c) ==
    IF \E i \in 1..Len(UpperCase) : UpperCase[i] = c
    THEN LowerCase[CHOOSE i \in 1..Len(UpperCase) : UpperCase[i] = c]
    ELSE c

Upper(c) ==
    IF \E i \in 1..Len(LowerCase) : LowerCase[i] = c
    THEN UpperCase[CHOOSE i \in 1..Len(LowerCase) : LowerCase[i] = c]
    ELSE c

\* the character at position i, "" past either end
At(s, i) == IF i >= 1 /\ i <= Len(s) THEN s[i] ELSE ""

\* a literal at position i, as written and under re.IGNORECASE (lit in lower case)
LitAt(s, i, lit) == \A k \in 1..Len(lit) : At(s, i + k - 1) = lit[k]

LitAtI(s, i, lit) == \A k \in 1..Len(lit) : Lower(At(s, i + k - 1)) = lit[k]

\* a greedy run of a character class from i: the first position not in it
RECURSIVE SkipWhile(_, _, _)
SkipWhile(s, i, class) ==
    IF i <= Len(s) /\ s[i] \in class THEN SkipWhile(s, i + 1, class) ELSE i

\* "$" without re.MULTILINE: the end, or just before a final newline
EndAt(s, k) == k = Len(s) + 1 \/ (k = Len(s) /\ s[k] = "\n")

MinOf(S) == CHOOSE x \in S : \A y \in S : x <= y

\* str.strip
RECURSIVE StripLeft(_)
StripLeft(t) ==
    IF t # <<>> /\ Head(t) \in Space THEN StripLeft(Tail(t)) ELSE t

RECURSIVE StripRight(_)
StripRight(t) ==
    IF t # <<>> /\ t[Len(t)] \in Space
    THEN StripRight(SubSeq(t, 1, Len(t) - 1)) ELSE t

Strip(t) == StripRight(StripLeft(t))

\* where the lazy group (.+?) starts after a greedy class* that began at
\* from: at the end of the run, or, when the run reaches the end of the
\* text, on its last character (the run gives one back); 0 when no
\* character is left for the group
GroupStart(s, from, class) ==
    LET j == SkipWhile(s, from, class)
    IN  IF j <= Len(s) THEN j
        ELSE IF j > from THEN Len(s)
        ELSE 0

\* r'Question \d+:\s*(.+?)(?=[ABCD]\)|$)': the start of group 1 for a
\* match at i, 0 when there is none
QuestionGroupAt(s, i) ==
    LET d == SkipWhile(s, i + 9, Digits)
    IN  IF LitAt(s, i, <<"Q", "u", "e", "s", "t", "i", "o", "n", " ">>)
           /\ d > i + 9 /\ At(s, d) = ":"
        THEN GroupStart(s, d + 1, Space)
        ELSE 0

OptionMarkerAt(s, k) == At(s, k) \in OptionLetters /\ At(s, k + 1) = ")"

\* the end (exclusive) of the lazy group that starts at j
QuestionEnd(s, j) ==
    MinOf({k \in (j + 1)..(Len(s) + 1) : OptionMarkerAt(s, k) \/ EndAt(s, k)})

ParseQuestion(s) ==
    LET starts == {i \in 1..Len(s) : QuestionGroupAt(s, i) # 0}
    IN  IF starts = {} THEN <<>>
        ELSE LET j == QuestionGroupAt(s, MinOf(starts))
             IN  Strip(SubSeq(s, j, QuestionEnd(s, j) - 1))

\* r'([ABCD])\)\s*(.+?)(?=[ABCD]\)|Correct|Answer|Explanation|$)'
OptionGroupAt(s, i) ==
    IF OptionMarkerAt(s, i) THEN GroupStart(s, i + 2, Space) ELSE 0

OptionStopAt(s, k) ==
    \/ OptionMarkerAt(s, k)
    \/ LitAt(s, k, <<"C", "o", "r", "r", "e", "c", "t">>)
    \/ LitAt(s, k, <<"A", "n", "s", "w", "e", "r">>)
    \/ LitAt(s, k, <<"E", "x", "p", "l", "a", "n", "a", "t", "i", "o", "n">>)
    \/ EndAt(s, k)

\* an option that runs to the next marker or the end, whatever words it holds
OptionEndAtMarker(s, j) ==
    MinOf({k \in (j + 1)..(Len(s) + 1) : OptionMarkerAt(s, k) \/ EndAt(s, k)})

OptionEnd(s, j) ==
    MinOf({k \in (j + 1)..(Len(s) + 1) : OptionStopAt(s, k)})

\* re.findall: the matches from left to right, each search starting where
\* the match before it ended
RECURSIVE FindOptions(_, _)
FindOptions(s, from) ==
    LET starts == {i \in from..Len(s) : OptionGroupAt(s, i) # 0}
    IN  IF starts = {} THEN <<>>
        ELSE LET j == OptionGroupAt(s, MinOf(starts))
                 k == OptionEnd(s, j)
             IN  <<Strip(SubSeq(s, j, k - 1))>> \o FindOptions(s, k)

ParseOptions(s) == FindOptions(s, 1)

\* [ABCD] under re.IGNORECASE
AnswerLetterAt(s, k) == Lower(At(s, k)) \in {"a", "b", "c", "d"}

\* the four answer patterns, in the order tried: the position of group 1
\* for a match at i, 0 when there is none
AnswerPatterns == 1..4

AnswerGroupAt(s, pattern, i) ==
    LET correct == <<"c", "o", "r", "r", "e", "c", "t">>
        answer  == <<"a", "n", "s", "w", "e", "r">>
        hit(k)  == IF AnswerLetterAt(s, k) THEN k ELSE 0
    IN  CASE pattern = 1 ->
               \* r'correct\s+answer[:\s]*([ABCD])'
               LET w == SkipWhile(s, i + 7, Space)
               IN  IF LitAtI(s, i, correct) /\ w > i + 7 /\ LitAtI(s, w, answer)
                   THEN hit(SkipWhile(s, w + 6, ColonSpace))
                   ELSE 0
          [] pattern = 2 ->
               \* r'answer[:\s]*([ABCD])'
               IF LitAtI(s, i, answer)
               THEN hit(SkipWhile(s, i + 6, ColonSpace))
               ELSE 0
          [] pattern = 3 ->
               \* r'correct[:\s]*([ABCD])'
               IF LitAtI(s, i, correct)
               THEN hit(SkipWhile(s, i + 7, ColonSpace))
               ELSE 0
          [] pattern = 4 ->
               \* r'\*\*([ABCD])\*\*'
               IF LitAt(s, i, <<"*", "*">>) /\ LitAt(s, i + 3, <<"*", "*">>)
               THEN hit(i + 2)
               ELSE 0

\* re.search(pattern, block, re.IGNORECASE): group 1 of the leftmost match
SearchAnswer(s, pattern) ==
    LET starts == {i \in 1..Len(s) : AnswerGroupAt(s, pattern, i) # 0}
    IN  IF starts = {} THEN None
        ELSE Some(s[AnswerGroupAt(s, pattern, MinOf(starts))])

\* the loop with the earlier default: "A" when no pattern matches
ParseCorrectAnswerDefaultA(s) ==
    LET matching == {n \in AnswerPatterns : SearchAnswer(s, n) # None}
    IN  IF matching = {} THEN Some("A")
        ELSE Some(Upper(SearchAnswer(s, MinOf(matching))[1]))

\* the loop over answer_patterns: the first pattern that matches decides,
\* and correct_answer stays None when none does
ParseCorrectAnswer(s) ==
    LET matching == {n \in AnswerPatterns : SearchAnswer(s, n) # None}
    IN  IF matching = {} THEN None
        ELSE Some(Upper(SearchAnswer(s, MinOf(matching))[1]))

\* r'explanation[:\s]*(.+?)(?=\n\s*question|$)', re.IGNORECASE | re.DOTALL
ExplanationGroupAt(s, i) ==
    IF LitAtI(s, i, <<"e", "x", "p", "l", "a", "n", "a", "t", "i", "o", "n">>)
    THEN GroupStart(s, i + 11, ColonSpace)
    ELSE 0

ExplanationStopAt(s, k) ==
    \/ At(s, k) = "\n"
         /\ LitAtI(s, SkipWhile(s, k + 1, Space),
                   <<"q", "u", "e", "s", "t", "i", "o", "n">>)
    \/ EndAt(s, k)

ExplanationEnd(s, j) ==
    MinOf({k \in (j + 1)..(Len(s) + 1) : ExplanationStopAt(s, k)})

ParseExplanation(s) ==
    LET starts == {i \in 1..Len(s) : ExplanationGroupAt(s, i) # 0}
    IN  IF starts = {} THEN <<>>
        ELSE LET j == ExplanationGroupAt(s, MinOf(starts))
             IN  Strip(SubSeq(s, j, ExplanationEnd(s, j) - 1))

\* parse_question_block
ParseQuestionBlock(s) ==
    [ question       |-> ParseQuestion(s),
      options        |-> ParseOptions(s),
      correct_answer |-> ParseCorrectAnswer(s),
      explanation    |-> ParseExplanation(s) ]

Parse ==
    /\ parsed = None
    /\ parsed' = Some(ParseQuestionBlock(block))
    /\ UNCHANGED <<block, profileVars, scorerVars, batchVars, objectVars, driverVars>>

-----------------------------------------------------------------------------
(* The question blocks parsed: a stem, options, an answer line and an      *)
(* explanation, each in several forms or missing                           *)

\* "Question 1: What is X?\n"
StemPlain ==
    <<"Q", "u", "e", "s", "t", "i", "o", "n", " ", "1", ":", " ", "W", "h",
      "a", "t", " ", "i", "s", " ", "X", "?", "\n">>

\* "Question 2: Which is correct about Y?\n"
StemCorrectAbout ==
    <<"Q", "u", "e", "s", "t", "i", "o", "n", " ", "2", ":", " ", "W", "h",
      "i", "c", "h", " ", "i", "s", " ", "c", "o", "r", "r", "e", "c", "t",
      " ", "a", "b", "o", "u", "t", " ", "Y", "?", "\n">>

\* "Question 12:\n"
StemEmpty ==
    <<"Q", "u", "e", "s", "t", "i", "o", "n", " ", "1", "2", ":", "\n">>

\* "A) foo\nB) bar\nC) baz\nD) qux\n"
OptionsFour ==
    <<"A", ")", " ", "f", "o", "o", "\n", "B", ")", " ", "b", "a", "r", "\n",
      "C", ")", " ", "b", "a", "z", "\n", "D", ")", " ", "q", "u", "x", "\n">>

\* "A) foo\nB) bar\n"
OptionsTwo ==
    <<"A", ")", " ", "f", "o", "o", "\n", "B", ")", " ", "b", "a", "r", "\n">>

\* "A) foo\nB) bar\nC) baz\nD) qux\nA) foo\n"
OptionsFive ==
    <<"A", ")", " ", "f", "o", "o", "\n", "B", ")", " ", "b", "a", "r",
      "\n", "C", ")", " ", "b", "a", "z", "\n", "D", ")", " ", "q", "u",
      "x", "\n", "A", ")", " ", "f", "o", "o", "\n">>

\* "Correct answer: B\n"
AnswerCorrectAnswer ==
    <<"C", "o", "r", "r", "e", "c", "t", " ", "a", "n", "s", "w", "e", "r",
      ":", " ", "B", "\n">>

\* "Answer: c\n"
AnswerOnly ==
    <<"A", "n", "s", "w", "e", "r", ":", " ", "c", "\n">>

\* "Correct: D\n"
AnswerCorrect ==
    <<"C", "o", "r", "r", "e", "c", "t", ":", " ", "D", "\n">>

\* "**A**\n"
AnswerStars ==
    <<"*", "*", "A", "*", "*", "\n">>

\* "The key is B\n"
AnswerProse ==
    <<"T", "h", "e", " ", "k", "e", "y", " ", "i", "s", " ", "B", "\n">>

\* "Explanation: because reasons."
ExplanationPlain ==
    <<"E", "x", "p", "l", "a", "n", "a", "t", "i", "o", "n", ":", " ", "b",
      "e", "c", "a", "u", "s", "e", " ", "r", "e", "a", "s", "o", "n", "s",
      ".">>

\* "Explanation:"
ExplanationBare ==
    <<"E", "x", "p", "l", "a", "n", "a", "t", "i", "o", "n", ":">>

Stems == {StemPlain, StemCorrectAbout, StemEmpty, <<>>}

OptionParts == {OptionsFour, OptionsTwo, OptionsFive, <<>>}

AnswerParts ==
    {AnswerCorrectAnswer, AnswerOnly, AnswerCorrect, AnswerStars, AnswerProse, <<>>}

ExplanationParts == {ExplanationPlain, ExplanationBare, <<>>}

Blocks ==
    {stem \o options \o answer \o explanation :
        stem \in Stems, options \in OptionParts,
        answer \in AnswerParts, explanation \in ExplanationParts}

-----------------------------------------------------------------------------
(* Well-formed blocks: "Question N: <stem>", the options A) to D) in order, *)
(* "Correct answer: X" and "Explanation: <text>", one section per line      *)

\* "What is X?"
StemWhatIsX ==
    <<"W", "h", "a", "t", " ", "i", "s", " ", "X", "?">>

\* "Which explanation fits?"
StemWhichExplanation ==
    <<"W", "h", "i", "c", "h", " ", "e", "x", "p", "l", "a", "n", "a", "t",
      "i", "o", "n", " ", "f", "i", "t", "s", "?">>

\* "What is the correct answer about Z?"
StemCorrectAnswerAbout ==
    <<"W", "h", "a", "t", " ", "i", "s", " ", "t", "h", "e", " ", "c", "o",
      "r", "r", "e", "c", "t", " ", "a", "n", "s", "w", "e", "r", " ", "a",
      "b", "o", "u", "t", " ", "Z", "?">>

\* "Is it a) or b)?"
StemLowerMarkers ==
    <<"I", "s", " ", "i", "t", " ", "a", ")", " ", "o", "r", " ", "b", ")",
      "?">>

StemTexts ==
    {StemWhatIsX, StemWhichExplanation, StemCorrectAnswerAbout,
     StemLowerMarkers}

\* "foo"
Foo ==
    <<"f", "o", "o">>

\* "bar"
Bar ==
    <<"b", "a", "r">>

\* "baz"
Baz ==
    <<"b", "a", "z">>

\* "qux"
Qux ==
    <<"q", "u", "x">>

\* "the Answer"
TheAnswer ==
    <<"t", "h", "e", " ", "A", "n", "s", "w", "e", "r">>

OptionTexts == {<<Foo, Bar, Baz, Qux>>, <<Foo, TheAnswer, Baz, Qux>>}

\* "because reasons."
BecauseReasons ==
    <<"b", "e", "c", "a", "u", "s", "e", " ", "r", "e", "a", "s", "o", "n",
      "s", ".">>

\* "unlike B) it holds."
UnlikeB ==
    <<"u", "n", "l", "i", "k", "e", " ", "B", ")", " ", "i", "t", " ", "h",
      "o", "l", "d", "s", ".">>

ExplanationTexts == {BecauseReasons, UnlikeB}

QuestionNumbers == {<<"1">>, <<"1", "2">>}

WellFormedBlock(n, stem, options, x, text) ==
    <<"Q", "u", "e", "s", "t", "i", "o", "n", " ">> \o n \o <<":", " ">>
      \o stem \o <<"\n">>
      \o <<"A", ")", " ">> \o options[1] \o <<"\n">>
      \o <<"B", ")", " ">> \o options[2] \o <<"\n">>
      \o <<"C", ")", " ">> \o options[3] \o <<"\n">>
      \o <<"D", ")", " ">> \o options[4] \o <<"\n">>
      \o <<"C", "o", "r", "r", "e", "c", "t", " ", "a", "n", "s", "w", "e",
           "r", ":", " ">> \o <<x>> \o <<"\n">>
      \o <<"E", "x", "p", "l", "a", "n", "a", "t", "i", "o", "n", ":", " ">>
      \o text

WellFormedBlocks ==
    {WellFormedBlock(n, stem, options, x, text) :
        n \in QuestionNumbers, stem \in StemTexts, options \in OptionTexts,
        x \in OptionLetters, text \in ExplanationTexts}

-----------------------------------------------------------------------------
(* Specifications *)

UserId == "alice"

QuestionIds == {"q_1_0"}

Topics == {"algebra", "biology"}

\* the session driver: a time in whole seconds, a confidence or none
SessionTimes == {3}

SessionConfidences == {None, Some(4)}

SessionDifficulties == {"medium", "hard"}

\* any caller: a non-positive time, an unknown difficulty, a confidence
\* outside 1..5
AnyTimes == {-1, 0, 1, 4}

AnyDifficulties == {"easy", "hard", "expert"}

AnyConfidences == {None, Some(3), Some(100)}

Init ==
    /\ profile = NewProfile(UserId)
    /\ disk = Absent
    /\ op = "init"
    /\ ret = None
    /\ raised = "none"
    /\ clock = 0
    /\ block = <<>>
    /\ parsed = None
    /\ args = None
    /\ scorer = "none"
    /\ metrics = None
    /\ files = None
    /\ aggregate = None
    /\ session = None
    /\ heap = <<>>
    /\ objects = <<>>
    /\ run = None

\* a session: the driver passes the profile's current difficulty (main.py)
Next ==
    \/ \E question_id \in QuestionIds, correct \in BOOLEAN,
          time_taken \in SessionTimes, topic \in Topics,
          confidence \in SessionConfidences :
          AddResponse(question_id, correct, time_taken,
                      profile.current_difficulty, topic, confidence)
    \/ GetStats
    \/ \E difficulty \in SessionDifficulties : SetDifficulty(difficulty)
    \/ Save
    \/ Load
    \/ FileRemoved
    \/ \E text \in CorruptTexts : FileCorrupted(text)
    \/ PermissionsRevoked

Spec == Init /\ [][Next]_vars

\* add_response called with any values
SkillNext ==
    \E question_id \in QuestionIds, correct \in BOOLEAN,
       time_taken \in AnyTimes, difficulty \in AnyDifficulties,
       topic \in {"algebra"}, confidence \in AnyConfidences :
       AddResponse(question_id, correct, time_taken, difficulty, topic, confidence)

SkillSpec == Init /\ [][SkillNext]_vars

\* parse_question_block called on one block
ParserInit ==
    /\ profile = NewProfile(UserId)
    /\ disk = Absent
    /\ op = "init"
    /\ ret = None
    /\ raised = "none"
    /\ clock = 0
    /\ block \in Blocks \cup WellFormedBlocks
    /\ parsed = None
    /\ args = None
    /\ scorer = "none"
    /\ metrics = None
    /\ files = None
    /\ aggregate = None
    /\ session = None
    /\ heap = <<>>
    /\ objects = <<>>
    /\ run = None

ParserNext == Parse

ParserSpec == ParserInit /\ [][ParserNext]_vars

-----------------------------------------------------------------------------
(* Python floats (evaluation_metrics.py): IEEE 754 binary64 with rounding  *)
(* to nearest, ties to even.  A natural number of any size is a sequence   *)
(* of limbs, least significant first, without a leading zero limb; a float *)
(* is sign * man * 2^exp with man odd, or zero.  The exponent range is not *)
(* modelled: no score comes near it.  A division by zero raises            *)
(* ZeroDivisionError: the exception is the value FZeroDivision, which      *)
(* every operation it goes into passes on, as the exception leaves every   *)
(* expression it is raised in.                                             *)
(*                                                                         *)
(* The operations on limbs and on floats are the cases of one recursive    *)
(* operator, Arith, and each is named by an operator that applies Arith:   *)
(* an expression over floats then holds one copy of the arithmetic for     *)
(* each operation in it, whatever the operations the arithmetic is made of.*)

LimbBits == 15

Base == 32768

MantissaBits == 53

MaxOf(S) == CHOOSE x \in S : \A y \in S : y <= x

\* the limbs f[1], .., f[n] of a function, as a tuple
Limbs(f) == <<>> \o f

BLimb(a, i) == IF 1 <= i /\ i <= Len(a) THEN a[i] ELSE 0

BShiftLimbs(a, n) == IF a = <<>> THEN <<>> ELSE [i \in 1..n |-> 0] \o a

\* the number of bits of a limb, and of a
LimbLen(d) == Cardinality({k \in 0..(LimbBits - 1) : 2 ^ k <= d})

BitLen(a) ==
    IF a = <<>> THEN 0 ELSE LimbBits * (Len(a) - 1) + LimbLen(a[Len(a)])

\* the number of zero bits at the low end of a limb d # 0, and of a # 0
LimbZeros(d) == Cardinality({k \in 1..LimbBits : d % (2 ^ k) = 0})

LowLimb(a) == CHOOSE i \in 1..Len(a) : a[i] # 0 /\ \A j \in 1..(i - 1) : a[j] = 0

TrailingZeros(a) == LimbBits * (LowLimb(a) - 1) + LimbZeros(a[LowLimb(a)])

BOdd(a) == a # <<>> /\ a[1] % 2 = 1

FZero == [sign |-> 1, man |-> <<>>, exp |-> 0]

FOne == [sign |-> 1, man |-> <<1>>, exp |-> 0]

FZeroDivision == [sign |-> 0, man |-> <<>>, exp |-> 0]

FRaises(x) == x.sign = 0

FNeg(x) == IF x.man = <<>> THEN x ELSE [x EXCEPT !.sign = -x.sign]

FMinExp(x, y) == IF x.exp < y.exp THEN x.exp ELSE y.exp

RECURSIVE Arith(_, _)

\* a without its leading zero limbs
BTrim(a) == Arith("BTrim", <<a>>)

\* the limbs of an int 0 <= n < 2^31
BNat(n) == BTrim(<<n % Base, (n \div Base) % Base, n \div (Base * Base)>>)

\* a + b and, for a >= b, a - b
BAdd(a, b) == Arith("BAdd", <<a, b>>)

BSub(a, b) == Arith("BSub", <<a, b>>)

\* -1, 0 or 1 as a < b, a = b or a > b
BCmp(a, b) == Arith("BCmp", <<a, b>>)

\* a times one limb d, and a * b
BMulLimb(a, d) == Arith("BMulLimb", <<a, d>>)

BMulFrom(a, b, acc) == Arith("BMulFrom", <<a, b, acc>>)

BMul(a, b) == BMulFrom(a, b, <<Len(b), <<>>>>)

\* a * 2^k and floor(a / 2^k)
BShl(a, k) == Arith("BShl", <<a, k>>)

BShr(a, k) == Arith("BShr", <<a, k>>)

\* <<floor(a / b), a mod b>> for b # 0, by long division
QuotientLimb(r, b) == Arith("QuotientLimb", <<r, b>>)

BDivStep(a, b, i, r, q) == Arith("BDivStep", <<a, b, i, r, q>>)

BDivFrom(a, b, acc) == Arith("BDivFrom", <<a, b, acc>>)

BDivMod(a, b) == Arith("BDivMod", <<a, b>>)

\* sign * n * 2^e with the low zero bits of n moved into the exponent
FExact(sign, n, e) == Arith("FExact", <<sign, n, e>>)

\* the float nearest to sign * n * 2^e, ties to the even mantissa
FRound(sign, n, e) == Arith("FRound", <<sign, n, e>>)

\* float(n) for an int n, -2^31 < n < 2^31
FInt(n) == Arith("FInt", <<n>>)

\* the mantissa of x scaled to the exponent e <= x.exp
FScaled(x, e) == BShl(x.man, x.exp - e)

\* -1, 0 or 1 as x < y, x = y or x > y
FCmp(x, y) == Arith("FCmp", <<x, y>>)

FLt(x, y) == FCmp(x, y) < 0

FLe(x, y) == FCmp(x, y) <= 0

\* x + y, x - y, x * y and x / y
FAdd(x, y) == Arith("FAdd", <<x, y>>)

FSub(x, y) == FAdd(x, FNeg(y))

FMul(x, y) == Arith("FMul", <<x, y>>)

FDiv(x, y) == Arith("FDiv", <<x, y>>)

\* the largest of qhat, qhat - 1 and qhat - 2 whose product with b is at
\* most r
QuotientFrom(r, b, qhat) ==
    IF BCmp(BMulLimb(b, qhat), r) <= 0 THEN qhat
    ELSE IF BCmp(BMulLimb(b, qhat - 1), r) <= 0 THEN qhat - 1
    ELSE qhat - 2

\* the limb i of a brought down to the remainder r gives r2, and the
\* quotient limb d of r2 goes in front of q
BDivStepFrom(b, i, r2, d, q) == <<i - 1, BSub(r2, BMulLimb(b, d)), <<d>> \o q>>

\* the quotient limbs and the remainder of the shifted operands, shifted
\* back
BDivResult(qr, s) == <<BTrim(qr[1]), BShr(qr[2], s)>>

\* the division of a, shifted to an, by bn: it starts below the top
\* limbs of an that are less than bn
BDivShifted(a, an, bn, s) ==
    IF Len(an) < Len(bn) THEN <<<<>>, a>>
    ELSE BDivResult(BDivFrom(an, bn,
                             <<Len(an) - Len(bn) + 1,
                               SubSeq(an, Len(an) - Len(bn) + 2, Len(an)),
                               <<>>>>), s)

\* n without its low k bits is q, and without the bits below the first
\* dropped one q2: q goes up by one when the dropped bits are more than a
\* half, or a half and q is odd
FRoundHalfEven(sign, e, q2, q, more) ==
    IF BOdd(q2) /\ (more \/ BOdd(q)) THEN FExact(sign, BAdd(q, <<1>>), e)
    ELSE FExact(sign, q, e)

FRoundBits(sign, n, e, k) ==
    FRoundHalfEven(sign, e + k, BShr(n, k - 1), BShr(n, k),
                   TrailingZeros(n) < k - 1)

\* the sum of x and y whose mantissas scaled to the exponent e are a and b
FAddScaled(x, y, a, b, e) ==
    IF x.sign = y.sign THEN FRound(x.sign, BAdd(a, b), e)
    ELSE IF BCmp(a, b) >= 0 THEN FRound(x.sign, BSub(a, b), e)
    ELSE FRound(y.sign, BSub(b, a), e)

\* the quotient q of a division with its remainder r, rounded: a last bit
\* records a remainder, so that FRound sees every tie
FQuotient(sign, qr, e) ==
    IF qr[2] = <<>> THEN FRound(sign, BMulLimb(qr[1], 2), e)
    ELSE FRound(sign, BAdd(BMulLimb(qr[1], 2), <<1>>), e)

\* the literal n/d written in decimal, and int / int
FRatio(n, d) == Arith("FRatio", <<n, d>>)

\* min(x, y) and max(x, y): the first argument unless the second is
\* smaller, or larger
FMin(x, y) == Arith("FMin", <<x, y>>)

FMax(x, y) == Arith("FMax", <<x, y>>)

\* sum(xs), added from the left: acc[2] is the sum of the first acc[1]
\* floats
FSumFrom(xs, acc) == Arith("FSumFrom", <<xs, acc>>)

FSum(xs) == FSumFrom(xs, <<0, FZero>>)

\* the int a small natural number of limbs stands for
RECURSIVE BInt(_)
BInt(a) == IF a = <<>> THEN 0 ELSE a[1] + Base * BInt(Tail(a))

\* the quotient q of num by den with its remainder r, rounded to an int,
\* ties to even
RoundedQuotient(qr, den) ==
    IF BCmp(BMulLimb(qr[2], 2), den) = 1 THEN BInt(qr[1]) + 1
    ELSE IF BCmp(BMulLimb(qr[2], 2), den) = 0 /\ BOdd(qr[1]) THEN BInt(qr[1]) + 1
    ELSE BInt(qr[1])

\* x * scale rounded to an int, ties to even, for x >= 0 and scale > 0
RoundedTimes(x, scale) == Arith("RoundedTimes", <<x, scale>>)

Arith(operation, v) ==
    CASE operation = "BTrim" ->
           IF v[1] = <<>> THEN <<>>
           ELSE LET nonzero == {i \in 1..Len(v[1]) : v[1][i] # 0}
                IN  IF nonzero = {} THEN <<>>
                    ELSE SubSeq(v[1], 1, MaxOf(nonzero))
      \* a carry enters limb i when a limb below it overflows and every
      \* limb between the two is full
      [] operation = "BAdd" ->
           IF v[1] = <<>> THEN BTrim(v[2])
           ELSE IF v[2] = <<>> THEN BTrim(v[1])
           ELSE LET sum(i)   == BLimb(v[1], i) + BLimb(v[2], i)
                    carry(i) == IF \E j \in 1..(i - 1) :
                                       /\ sum(j) >= Base
                                       /\ \A m \in (j + 1)..(i - 1) :
                                              sum(m) = Base - 1
                                THEN 1 ELSE 0
                    n        == IF Len(v[1]) > Len(v[2]) THEN Len(v[1])
                                ELSE Len(v[2])
                IN  BTrim(Limbs([i \in 1..(n + 1) |->
                                    (sum(i) + carry(i)) % Base]))
      \* a borrow enters limb i when a limb below it falls short and every
      \* limb between the two is level
      [] operation = "BSub" ->
           IF v[1] = <<>> \/ v[2] = <<>> THEN v[1]
           ELSE LET borrow(i) ==
                        IF \E j \in 1..(i - 1) :
                               /\ v[1][j] < BLimb(v[2], j)
                               /\ \A m \in (j + 1)..(i - 1) :
                                      v[1][m] = BLimb(v[2], m)
                        THEN 1 ELSE 0
                IN  BTrim(Limbs([i \in 1..Len(v[1]) |->
                                    (v[1][i] - BLimb(v[2], i) - borrow(i) + Base)
                                      % Base]))
      [] operation = "BCmp" ->
           LET differ == {i \in 1..Len(v[1]) : v[1][i] # BLimb(v[2], i)}
           IN  IF Len(v[1]) > Len(v[2]) THEN 1
               ELSE IF Len(v[1]) < Len(v[2]) THEN -1
               ELSE IF differ = {} THEN 0
               ELSE IF v[1][MaxOf(differ)] > v[2][MaxOf(differ)] THEN 1
               ELSE -1
      \* the low halves of the limb products plus their high halves one
      \* limb up
      [] operation = "BMulLimb" ->
           IF v[1] = <<>> \/ v[2] = 0 THEN <<>>
           ELSE BAdd(Limbs([i \in 1..Len(v[1]) |-> (v[1][i] * v[2]) % Base]),
                     <<0>> \o [i \in 1..Len(v[1]) |-> (v[1][i] * v[2]) \div Base])
      \* a * b from the top limb of b down: acc[2] is a times the limbs of
      \* b above limb acc[1]
      [] operation = "BMulFrom" ->
           IF v[3][1] = 0 THEN v[3][2]
           ELSE BMulFrom(v[1], v[2],
                         <<v[3][1] - 1,
                           BAdd(BMulLimb(v[1], v[2][v[3][1]]),
                                BShiftLimbs(v[3][2], 1))>>)
      [] operation = "BShl" ->
           BShiftLimbs(BMulLimb(v[1], 2 ^ (v[2] % LimbBits)), v[2] \div LimbBits)
      [] operation = "BShr" ->
           IF v[2] \div LimbBits >= Len(v[1]) THEN <<>>
           ELSE LET r == v[2] % LimbBits
                    d == SubSeq(v[1], v[2] \div LimbBits + 1, Len(v[1]))
                IN  BTrim(Limbs([i \in 1..Len(d) |->
                                    (d[i] \div (2 ^ r))
                                      + (BLimb(d, i + 1) % (2 ^ r))
                                          * (2 ^ (LimbBits - r))]))
      \* the largest limb d with b * d <= r, for r < b * Base and a b whose
      \* top limb is at least Base / 2: the quotient of the top limbs is d,
      \* d + 1 or d + 2
      [] operation = "QuotientLimb" ->
           LET n   == Len(v[2])
               top == BLimb(v[1], n + 1) * Base + BLimb(v[1], n)
           IN  IF top \div v[2][n] < Base
               THEN QuotientFrom(v[1], v[2], top \div v[2][n])
               ELSE QuotientFrom(v[1], v[2], Base - 1)
      \* one step of the long division of a by b: limb i of a is brought
      \* down to the remainder r, and the quotient limb goes in front of q
      [] operation = "BDivStep" ->
           LET r2 == BTrim(<<v[1][v[3]]>> \o v[4])
           IN  BDivStepFrom(v[2], v[3], r2, QuotientLimb(r2, v[2]), v[5])
      \* long division of the limbs acc[1], .., 1 of a by b, acc[2] the
      \* remainder and acc[3] the quotient limbs so far
      [] operation = "BDivFrom" ->
           IF v[3][1] = 0 THEN <<v[3][3], v[3][2]>>
           ELSE BDivFrom(v[1], v[2],
                         BDivStep(v[1], v[2], v[3][1], v[3][2], v[3][3]))
      \* a and b are shifted so that the top limb of b is at least
      \* Base / 2, and the division starts below the top limbs of a that
      \* are less than b
      [] operation = "BDivMod" ->
           LET s == LimbBits - LimbLen(v[2][Len(v[2])])
           IN  BDivShifted(v[1], BShl(v[1], s), BShl(v[2], s), s)
      [] operation = "FExact" ->
           IF v[2] = <<>> THEN FZero
           ELSE [sign |-> v[1], man |-> BShr(v[2], TrailingZeros(v[2])),
                 exp |-> v[3] + TrailingZeros(v[2])]
      [] operation = "FRound" ->
           IF BitLen(v[2]) <= MantissaBits THEN FExact(v[1], v[2], v[3])
           ELSE FRoundBits(v[1], v[2], v[3], BitLen(v[2]) - MantissaBits)
      [] operation = "FInt" ->
           IF v[1] < 0 THEN FExact(-1, BNat(-v[1]), 0)
           ELSE FExact(1, BNat(v[1]), 0)
      [] operation = "FCmp" ->
           LET e  == FMinExp(v[1], v[2])
               sx == IF v[1].man = <<>> THEN 0 ELSE v[1].sign
               sy == IF v[2].man = <<>> THEN 0 ELSE v[2].sign
           IN  IF sx # sy THEN (IF sx < sy THEN -1 ELSE 1)
               ELSE sx * BCmp(FScaled(v[1], e), FScaled(v[2], e))
      [] operation = "FAdd" ->
           IF FRaises(v[1]) \/ FRaises(v[2]) THEN FZeroDivision
           ELSE FAddScaled(v[1], v[2], FScaled(v[1], FMinExp(v[1], v[2])),
                           FScaled(v[2], FMinExp(v[1], v[2])),
                           FMinExp(v[1], v[2]))
      [] operation = "FMul" ->
           IF FRaises(v[1]) \/ FRaises(v[2]) THEN FZeroDivision
           ELSE IF v[1].man = <<>> \/ v[2].man = <<>> THEN FZero
           ELSE FRound(v[1].sign * v[2].sign, BMul(v[1].man, v[2].man),
                       v[1].exp + v[2].exp)
      \* the quotient is taken to at least two bits more than a mantissa
      [] operation = "FDiv" ->
           IF FRaises(v[1]) \/ FRaises(v[2]) \/ v[2].man = <<>>
           THEN FZeroDivision
           ELSE IF v[1].man = <<>> THEN FZero
           ELSE LET t == MantissaBits + 3 + BitLen(v[2].man) - BitLen(v[1].man)
                IN  FQuotient(v[1].sign * v[2].sign,
                              BDivMod(BShl(v[1].man, t), v[2].man),
                              v[1].exp - v[2].exp - t - 1)
      [] operation = "FRatio" -> FDiv(FInt(v[1]), FInt(v[2]))
      [] operation = "FMin" ->
           IF FRaises(v[1]) \/ FRaises(v[2]) THEN FZeroDivision
           ELSE IF FLt(v[2], v[1]) THEN v[2] ELSE v[1]
      [] operation = "FMax" ->
           IF FRaises(v[1]) \/ FRaises(v[2]) THEN FZeroDivision
           ELSE IF FLt(v[1], v[2]) THEN v[2] ELSE v[1]
      [] operation = "FSumFrom" ->
           IF v[2][1] = Len(v[1]) THEN v[2][2]
           ELSE FSumFrom(v[1], <<v[2][1] + 1, FAdd(v[2][2], v[1][v[2][1] + 1])>>)
      [] operation = "RoundedTimes" ->
           LET n   == BMul(v[1].man, BNat(v[2]))
               den == IF v[1].exp < 0 THEN BShl(<<1>>, -v[1].exp) ELSE <<1>>
               num == IF v[1].exp < 0 THEN n ELSE BShl(n, v[1].exp)
           IN  RoundedQuotient(BDivMod(num, den), den)
-----------------------------------------------------------------------------
(* Texts and dicts of the scorers (evaluation_metrics.py) *)

\* str.lower
LowerText(s) == <<>> \o [i \in 1..Len(s) |-> Lower(s[i])]

\* str.split(): the runs of characters that are not white space
NonSpaceAt(s, i) == i >= 1 /\ i <= Len(s) /\ s[i] \notin Space

\* the k-th least element of a set of numbers
Nth(S, k) == CHOOSE x \in S : Cardinality({y \in S : y < x}) = k - 1

Split(s) ==
    LET starts == {i \in 1..Len(s) : NonSpaceAt(s, i) /\ ~NonSpaceAt(s, i - 1)}
        ends   == {i \in 1..Len(s) : NonSpaceAt(s, i) /\ ~NonSpaceAt(s, i + 1)}
    IN  <<>> \o [k \in 1..Cardinality(starts) |->
                    SubSeq(s, Nth(starts, k), Nth(ends, k))]

Range(xs) == {xs[i] : i \in 1..Len(xs)}

\* set(s.lower().split())
WordSet(s) == Range(Split(LowerText(s)))

\* lit in s
Contains(s, lit) == \E i \in 1..(Len(s) + 1) : LitAt(s, i, lit)

\* s.count(lit) for a lit that is not empty: the occurrences from the left
\* that do not overlap
RECURSIVE CountFrom(_, _, _)
CountFrom(s, lit, i) ==
    LET found == {k \in i..(Len(s) - Len(lit) + 1) : LitAt(s, k, lit)}
    IN  IF found = {} THEN 0
        ELSE 1 + CountFrom(s, lit, MinOf(found) + Len(lit))

Count(s, lit) == CountFrom(s, lit, 1)

\* the values of a metrics dict: a number (an int or a float), a str or a
\* list of numbers
Number(x) == [kind |-> "number", number |-> x, str |-> "", list |-> <<>>]

Str(t) == [kind |-> "str", number |-> FZero, str |-> t, list |-> <<>>]

List(xs) == [kind |-> "list", number |-> FZero, str |-> "", list |-> xs]

\* isinstance(val, (int, float))
IsNumber(val) == val.kind = "number"

\* dict.update: the entries of new replace those of old
Update(old, new) == new @@ old

\* sum(xs) / len(xs), whatever xs holds
AverageUnguarded(xs) == FDiv(FSum(xs), FInt(Len(xs)))

\* sum(xs) / len(xs) if xs else 0
Average(xs) == IF xs # <<>> THEN FDiv(FSum(xs), FInt(Len(xs))) ELSE FZero

-----------------------------------------------------------------------------
(* calculate_sos *)

\* the size of the overlap, not divided by the size of the union
JaccardOverlapCount(a, b) == FInt(Cardinality(a \cap b))

\* intersection / union if union > 0 else 0
Jaccard(a, b) ==
    IF Cardinality(a \cup b) > 0
    THEN FRatio(Cardinality(a \cap b), Cardinality(a \cup b))
    ELSE FZero

\* for i in range(len(options)): for j in range(i + 1, len(options))
RECURSIVE OptionPairs(_, _, _)
OptionPairs(i, j, n) ==
    IF i >= n THEN <<>>
    ELSE IF j > n THEN OptionPairs(i + 1, i + 2, n)
    ELSE <<<<i, j>>>> \o OptionPairs(i, j + 1, n)

PairwiseSimilarities(options) ==
    LET pairs == OptionPairs(1, 2, Len(options))
    IN  [k \in 1..Len(pairs) |->
            Jaccard(WordSet(options[pairs[k][1]]), WordSet(options[pairs[k][2]]))]

\* the similarity itself, not its complement
DiversityAsSimilarity(avg_similarity) == avg_similarity

\* 1.0 - avg_similarity
OptionDiversity(avg_similarity) == FSub(FOne, avg_similarity)

\* the dict of the similarities and of their average
SosResult(similarities, avg_similarity) ==
    "SOS" :> Number(avg_similarity)
      @@ "option_diversity" :> Number(OptionDiversity(avg_similarity))
      @@ "pairwise_similarities" :> List(similarities)
      @@ "num_pairs" :> Number(FInt(Len(similarities)))

SosOfSimilarities(similarities) == SosResult(similarities, Average(similarities))

SosMetrics(options) ==
    IF Len(options) < 2
    THEN "SOS" :> Number(FZero) @@ "option_diversity" :> Number(FZero)
    ELSE SosOfSimilarities(PairwiseSimilarities(options))

-----------------------------------------------------------------------------
(* calculate_clarity *)

\* ' '.join(words)
RECURSIVE Join(_)
Join(words) ==
    IF words = <<>> THEN <<>>
    ELSE IF Len(words) = 1 THEN words[1]
    ELSE LET half == Len(words) \div 2
         IN  Join(SubSeq(words, 1, half)) \o <<" ">>
               \o Join(SubSeq(words, half + 1, Len(words)))

\* 10-25 words 1.0, 5-9 or 26-35 words 0.7, else 0.4
ClarityLengthScore(word_count) ==
    IF 10 <= word_count /\ word_count <= 25 THEN FOne
    ELSE IF (5 <= word_count /\ word_count < 10)
            \/ (25 < word_count /\ word_count <= 35)
    THEN FRatio(7, 10)
    ELSE FRatio(4, 10)

QuestionMarkScore(text) ==
    IF Contains(text, <<"?">>) THEN FOne ELSE FRatio(3, 10)

SingleQuestionScore(text) ==
    IF Count(text, <<"?">>) = 1 THEN FOne
    ELSE IF Count(text, <<"?">>) = 0 THEN FRatio(5, 10)
    ELSE FRatio(3, 10)

ambiguous_words ==
    { <<"m", "a", "y", "b", "e">>, <<"p", "e", "r", "h", "a", "p", "s">>,
      <<"p", "o", "s", "s", "i", "b", "l", "y">>, <<"m", "i", "g", "h", "t">>,
      <<"c", "o", "u", "l", "d">>, <<"s", "o", "m", "e">>,
      <<"s", "o", "m", "e", "w", "h", "a", "t">>,
      <<"k", "i", "n", "d", " ", "o", "f">>,
      <<"s", "o", "r", "t", " ", "o", "f">>,
      <<"v", "a", "r", "i", "o", "u", "s">> }

\* the words of the list that occur in the text, as substrings
AmbiguousCount(text) ==
    Cardinality({word \in ambiguous_words : Contains(LowerText(text), word)})

\* max(0, 1.0 - (ambiguous_count * 0.2))
AmbiguityPenalty(text) ==
    FMax(FZero, FSub(FOne, FMul(FInt(AmbiguousCount(text)), FRatio(2, 10))))

interrogatives ==
    { <<"w", "h", "a", "t">>, <<"w", "h", "i", "c", "h">>, <<"h", "o", "w">>,
      <<"w", "h", "y">>, <<"w", "h", "e", "n">>, <<"w", "h", "o">>,
      <<"w", "h", "e", "r", "e">> }

\* an interrogative among the first five words
HasInterrogative(text) ==
    LET words == Split(LowerText(text))
    IN  \E i \in 1..Len(words) : i <= 5 /\ words[i] \in interrogatives

InterrogativeScore(text) ==
    IF HasInterrogative(text) THEN FOne ELSE FRatio(6, 10)

negations ==
    << <<"n", "o", "t">>, <<"n", "'", "t">>, <<"n", "e", "v", "e", "r">>,
      <<"n", "o", " ">>, <<"n", "o", "n", "e">>,
      <<"n", "e", "i", "t", "h", "e", "r">> >>

RECURSIVE NegationCountFrom(_, _)
NegationCountFrom(text, i) ==
    IF i > Len(negations) THEN 0
    ELSE Count(LowerText(text), negations[i]) + NegationCountFrom(text, i + 1)

NegationCount(text) == NegationCountFrom(text, 1)

NegationScore(text) ==
    IF NegationCount(text) = 0 THEN FOne
    ELSE IF NegationCount(text) = 1 THEN FRatio(9, 10)
    ELSE FRatio(5, 10)

\* w[1] * c[1] + w[2] * c[2] + ..., added from the left: acc[2] is the
\* sum of the first acc[1] terms
RECURSIVE WeightedSumFrom(_, _, _)
WeightedSumFrom(weights, components, acc) ==
    IF acc[1] = Len(weights) THEN acc[2]
    ELSE WeightedSumFrom(weights, components,
                         <<acc[1] + 1,
                           FAdd(acc[2], FMul(weights[acc[1] + 1],
                                             components[acc[1] + 1]))>>)

WeightedSum(weights, components) ==
    WeightedSumFrom(weights, components, <<1, FMul(weights[1], components[1])>>)

\* the weights of the length and of the question mark exchanged
ClarityWeightsExchanged ==
    <<FRatio(15, 100), FRatio(20, 100), FRatio(15, 100), FRatio(20, 100),
      FRatio(15, 100), FRatio(15, 100)>>

ClarityWeights ==
    <<FRatio(20, 100), FRatio(15, 100), FRatio(15, 100), FRatio(20, 100),
      FRatio(15, 100), FRatio(15, 100)>>

\* the six scores of the text, in the order of their weights
ClarityComponents(text) ==
    <<ClarityLengthScore(Len(Split(text))), QuestionMarkScore(text),
      SingleQuestionScore(text), AmbiguityPenalty(text),
      InterrogativeScore(text), NegationScore(text)>>

ClarityResult(components, word_count) ==
    "clarity" :> Number(WeightedSum(ClarityWeights, components))
      @@ "length_score" :> Number(components[1])
      @@ "question_mark_score" :> Number(components[2])
      @@ "single_question_score" :> Number(components[3])
      @@ "ambiguity_score" :> Number(components[4])
      @@ "interrogative_score" :> Number(components[5])
      @@ "negation_clarity" :> Number(components[6])
      @@ "word_count" :> Number(FInt(word_count))

\* text is ' '.join(question_text.split())
ClarityOfText(text) == ClarityResult(ClarityComponents(text), Len(Split(text)))

ClarityMetrics(question_text) == ClarityOfText(Join(Split(question_text)))

-----------------------------------------------------------------------------
(* calculate_relevance *)

RelevanceStopWords ==
    { <<"t", "h", "e">>, <<"a">>, <<"a", "n">>, <<"a", "n", "d">>,
      <<"o", "r">>, <<"b", "u", "t">>, <<"i", "n">>, <<"o", "n">>,
      <<"a", "t">>, <<"t", "o">>, <<"f", "o", "r">>, <<"o", "f">>,
      <<"w", "i", "t", "h">>, <<"i", "s">>, <<"a", "r", "e">>,
      <<"w", "a", "s">>, <<"w", "e", "r", "e">>, <<"w", "h", "a", "t">>,
      <<"w", "h", "i", "c", "h">>, <<"h", "o", "w">> }

\* len(a & b) / len(a | b) if len(a | b) > 0 else 0, per option
RECURSIVE OptionRelevanceScores(_, _)
OptionRelevanceScores(question_keywords, options) ==
    IF options = <<>> THEN <<>>
    ELSE <<Jaccard(question_keywords, WordSet(Head(options)) \ RelevanceStopWords)>>
           \o OptionRelevanceScores(question_keywords, Tail(options))

RECURSIVE SumOfLengths(_)
SumOfLengths(words) ==
    IF words = {} THEN 0
    ELSE LET w == CHOOSE x \in words : TRUE
         IN  Len(w) + SumOfLengths(words \ {w})

\* the knowledge base is None or a text; None and "" are falsy
KbRelevance(question_keywords, knowledge_base) ==
    IF knowledge_base # None /\ knowledge_base[1] # <<>>
    THEN IF question_keywords # {}
         THEN FMin(FRatio(Cardinality(question_keywords
                                       \cap (WordSet(knowledge_base[1]) \ RelevanceStopWords)),
                          Cardinality(question_keywords)),
                   FOne)
         ELSE FZero
    ELSE FRatio(5, 10)

\* sum(len(w) for w in question_keywords) / len(question_keywords), 0 for
\* no keywords
AvgWordLength(question_keywords) ==
    IF question_keywords # {}
    THEN FRatio(SumOfLengths(question_keywords), Cardinality(question_keywords))
    ELSE FZero

TechnicalScore(question_keywords) ==
    FMin(FDiv(AvgWordLength(question_keywords), FInt(8)), FOne)

\* sum((x - avg) ** 2 for x in xs) / len(xs)
SumOfSquares(xs, avg) ==
    FSum([i \in 1..Len(xs) |-> FMul(FSub(xs[i], avg), FSub(xs[i], avg))])

Variance(xs, avg) == FDiv(SumOfSquares(xs, avg), FInt(Len(xs)))

ConsistencyScore(scores, avg) ==
    IF scores # <<>> THEN FSub(FOne, FMin(Variance(scores, avg), FOne))
    ELSE FZero

RelevanceWeights ==
    <<FRatio(35, 100), FRatio(25, 100), FRatio(20, 100), FRatio(20, 100)>>

\* the four scores, in the order of their weights: avg is the average of
\* the relevance scores of the options
RelevanceComponents(question_keywords, knowledge_base, scores, avg) ==
    <<avg, KbRelevance(question_keywords, knowledge_base),
      TechnicalScore(question_keywords), ConsistencyScore(scores, avg)>>

RelevanceResult(components) ==
    "relevance" :> Number(WeightedSum(RelevanceWeights, components))
      @@ "option_relevance" :> Number(components[1])
      @@ "knowledge_base_relevance" :> Number(components[2])
      @@ "technical_terminology" :> Number(components[3])
      @@ "option_consistency" :> Number(components[4])

RelevanceOfScores(question_keywords, knowledge_base, scores) ==
    RelevanceResult(RelevanceComponents(question_keywords, knowledge_base,
                                        scores, Average(scores)))

RelevanceOfKeywords(question_keywords, options, knowledge_base) ==
    RelevanceOfScores(question_keywords, knowledge_base,
                      OptionRelevanceScores(question_keywords, options))

RelevanceMetrics(question_text, options, knowledge_base) ==
    RelevanceOfKeywords(WordSet(question_text) \ RelevanceStopWords, options,
                        knowledge_base)

-----------------------------------------------------------------------------
(* calculate_readability_level *)

\* \w: a letter, a digit or the underscore
WordChars == Range(UpperCase) \cup Range(LowerCase) \cup Digits \cup {"_"}

\* re.sub(r'[^\w\s.]', ' ', text)
CleanText(text) ==
    <<>> \o [i \in 1..Len(text) |->
        IF text[i] \in WordChars \cup Space \cup {"."} THEN text[i] ELSE " "]

\* text.split('.'): the pieces between the full stops, empty ones too
RECURSIVE SplitOn(_, _)
SplitOn(s, sep) ==
    IF \A i \in 1..Len(s) : s[i] # sep THEN <<s>>
    ELSE LET k == MinOf({i \in 1..Len(s) : s[i] = sep})
         IN  <<SubSeq(s, 1, k - 1)>> \o SplitOn(SubSeq(s, k + 1, Len(s)), sep)

\* the pieces that hold more than white space
Sentences(text) ==
    SelectSeq(SplitOn(text, "."), LAMBDA piece : Strip(piece) # <<>>)

Vowels == {"a", "e", "i", "o", "u", "y"}

\* the vowels of the word that do not follow a vowel
VowelGroups(word) ==
    Cardinality({i \in 1..Len(word) :
                    word[i] \in Vowels /\ (i = 1 \/ word[i - 1] \notin Vowels)})

count_syllables(word) ==
    LET w == LowerText(word)
        n == VowelGroups(w) - (IF w[Len(w)] = "e" THEN 1 ELSE 0)
    IN  IF n = 0 THEN 1 ELSE n

RECURSIVE TotalSyllables(_)
TotalSyllables(words) ==
    IF words = <<>> THEN 0
    ELSE IF Len(words) = 1 THEN count_syllables(words[1])
    ELSE LET half == Len(words) \div 2
         IN  TotalSyllables(SubSeq(words, 1, half))
               + TotalSyllables(SubSeq(words, half + 1, Len(words)))

\* round(x, 2) and round(x, 1) for x >= 0: the float nearest to the
\* decimal that is nearest to x
Round2(x) ==
    IF FRaises(x) THEN FZeroDivision
    ELSE FRatio(RoundedTimes(x, 100), 100)

Round1(x) ==
    IF FRaises(x) THEN FZeroDivision
    ELSE FRatio(RoundedTimes(x, 10), 10)

ReadabilityLevel(fk_grade) ==
    IF FLt(fk_grade, FInt(6)) THEN "Elementary (Grades 1-5)"
    ELSE IF FLt(fk_grade, FInt(9)) THEN "Middle School (Grades 6-8)"
    ELSE IF FLt(fk_grade, FInt(13)) THEN "High School (Grades 9-12)"
    ELSE IF FLt(fk_grade, FInt(16)) THEN "College (Undergraduate)"
    ELSE "Graduate/Professional"

\* max(0, 0.39 * (words / sentences) + 11.8 * (syllables / words) - 15.59)
FleschKincaidGrade(num_words, num_sentences, total_syllables) ==
    FMax(FZero,
         FSub(FAdd(FMul(FRatio(39, 100), FRatio(num_words, num_sentences)),
                   FMul(FRatio(118, 10), FRatio(total_syllables, num_words))),
              FRatio(1559, 100)))

\* max(0, min(100, 206.835 - 1.015 * (words / sentences)
\*                          - 84.6 * (syllables / words)))
FleschReadingEase(num_words, num_sentences, total_syllables) ==
    FMax(FZero,
         FMin(FInt(100),
              FSub(FSub(FRatio(206835, 1000),
                        FMul(FRatio(1015, 1000), FRatio(num_words, num_sentences))),
                   FMul(FRatio(846, 10), FRatio(total_syllables, num_words)))))

ReadabilityResult(num_words, num_sentences, total_syllables, fk_grade) ==
    "flesch_kincaid_grade" :> Number(Round2(fk_grade))
      @@ "flesch_reading_ease" :>
           Number(Round2(FleschReadingEase(num_words, num_sentences,
                                           total_syllables)))
      @@ "readability_level" :> Str(ReadabilityLevel(fk_grade))
      @@ "avg_sentence_length" :> Number(Round2(FRatio(num_words, num_sentences)))
      @@ "avg_syllables_per_word" :>
           Number(Round2(FRatio(total_syllables, num_words)))

ReadabilityOfCounts(num_words, num_sentences, total_syllables) ==
    ReadabilityResult(num_words, num_sentences, total_syllables,
                      FleschKincaidGrade(num_words, num_sentences,
                                         total_syllables))

\* the sentences and the words of the cleaned text
ReadabilityOfText(sentences, words) ==
    IF sentences = <<>> \/ words = <<>>
    THEN "flesch_kincaid_grade" :> Number(FZero)
           @@ "flesch_reading_ease" :> Number(FZero)
           @@ "readability_level" :> Str("Unknown")
           @@ "avg_sentence_length" :> Number(FZero)
           @@ "avg_syllables_per_word" :> Number(FZero)
    ELSE ReadabilityOfCounts(Len(words), Len(sentences), TotalSyllables(words))

ReadabilityMetrics(text) ==
    ReadabilityOfText(Sentences(CleanText(text)), Split(CleanText(text)))

-----------------------------------------------------------------------------
(* calculate_distractor_quality_detailed *)

\* len(opt.split()) for each option
WordCounts(options) == [i \in 1..Len(options) |-> FInt(Len(Split(options[i])))]

\* 1.0 / (1.0 + length_variance / 10)
HomogeneityScore(length_variance) ==
    FDiv(FOne, FAdd(FOne, FDiv(length_variance, FInt(10))))

\* opt.split()[0].lower() if opt.split() else ''
FirstWord(option) ==
    IF Split(option) # <<>> THEN LowerText(Split(option)[1]) ELSE <<>>

\* 1.0 - len(set(first_words)) / len(first_words)
ParallelismScore(all_options) ==
    FSub(FOne,
         FRatio(Cardinality({FirstWord(all_options[i]) : i \in 1..Len(all_options)}),
                Len(all_options)))

obvious_patterns ==
    { <<"a", "l", "l", " ", "o", "f", " ", "t", "h", "e", " ", "a", "b", "o", "v", "e">>,
      <<"n", "o", "n", "e", " ", "o", "f", " ", "t", "h", "e", " ", "a", "b", "o", "v", "e">>,
      <<"b", "o", "t", "h", " ", "a", " ", "a", "n", "d", " ", "b">>,
      <<"n", "e", "i", "t", "h", "e", "r">>,
      <<"c", "a", "n", "n", "o", "t", " ", "b", "e", " ", "d", "e", "t", "e", "r", "m", "i", "n", "e", "d">>,
      <<"n", "o", "t", " ", "e", "n", "o", "u", "g", "h", " ", "i", "n", "f", "o", "r", "m", "a", "t", "i", "o", "n">>,
      <<"a", " ", "a", "n", "d", " ", "b">>,
      <<"b", " ", "a", "n", "d", " ", "c">>,
      <<"a", " ", "a", "n", "d", " ", "c">> }

HasObviousPattern(distractor) ==
    \E pattern \in obvious_patterns : Contains(LowerText(distractor), pattern)

DistractorStopWords ==
    { <<"t", "h", "e">>, <<"a">>, <<"a", "n">>, <<"a", "n", "d">>,
      <<"o", "r">>, <<"b", "u", "t">>, <<"i", "n">>, <<"o", "n">>,
      <<"a", "t">>, <<"t", "o">>, <<"f", "o", "r">>, <<"o", "f">>,
      <<"w", "i", "t", "h">> }

\* min(overlap / max(len(keywords), 1), 1.0)
KeywordOverlap(keywords, words) ==
    FMin(FRatio(Cardinality(keywords \cap words),
                IF Cardinality(keywords) > 1 THEN Cardinality(keywords) ELSE 1),
         FOne)

SubstantiveScore(distractor) ==
    IF Len(Split(distractor)) >= 10 THEN FOne
    ELSE IF Len(Split(distractor)) >= 5 THEN FRatio(7, 10)
    ELSE FRatio(3, 10)

DistractorWeights ==
    <<FRatio(25, 100), FRatio(20, 100), FRatio(25, 100), FRatio(15, 100),
      FRatio(15, 100)>>

\* the five scores, in the order of their weights
DistractorComponents(keywords, all_options, distractors, length_variance) ==
    << HomogeneityScore(length_variance),
       ParallelismScore(all_options),
       Average([i \in 1..Len(distractors) |->
                   IF HasObviousPattern(distractors[i]) THEN FZero ELSE FOne]),
       Average([i \in 1..Len(distractors) |->
                   KeywordOverlap(keywords,
                                  WordSet(distractors[i]) \ DistractorStopWords)]),
       Average([i \in 1..Len(distractors) |->
                   SubstantiveScore(distractors[i])]) >>

DistractorResult(components, avg_length, length_variance) ==
    "distractor_quality_detailed" :>
        Number(WeightedSum(DistractorWeights, components))
      @@ "homogeneity" :> Number(components[1])
      @@ "grammatical_parallelism" :> Number(components[2])
      @@ "no_obvious_patterns" :> Number(components[3])
      @@ "keyword_relevance" :> Number(components[4])
      @@ "substantiveness" :> Number(components[5])
      @@ "avg_length" :> Number(Round1(avg_length))
      @@ "length_variance" :> Number(Round2(length_variance))

DistractorQualityOfVariance(keywords, all_options, distractors, avg_length,
                            length_variance) ==
    DistractorResult(DistractorComponents(keywords, all_options, distractors,
                                          length_variance),
                     avg_length, length_variance)

DistractorQualityOfAverage(keywords, all_options, distractors, lengths,
                           avg_length) ==
    DistractorQualityOfVariance(keywords, all_options, distractors, avg_length,
                                Variance(lengths, avg_length))

\* all_options is [correct_answer] + distractors
DistractorQualityOfOptions(keywords, all_options, distractors) ==
    DistractorQualityOfAverage(keywords, all_options, distractors,
                               WordCounts(all_options),
                               Average(WordCounts(all_options)))

DistractorQualityMetrics(question, correct_answer, distractors) ==
    IF distractors = <<>>
    THEN "distractor_quality_detailed" :> Number(FZero)
    ELSE DistractorQualityOfOptions(WordSet(question) \ DistractorStopWords,
                                    <<correct_answer>> \o distractors,
                                    distractors)

-----------------------------------------------------------------------------
(* calculate_rationale_quality *)

RationaleLengthScore(word_count) ==
    IF 20 <= word_count /\ word_count <= 100 THEN FOne
    ELSE IF (10 <= word_count /\ word_count < 20)
            \/ (100 < word_count /\ word_count <= 150)
    THEN FRatio(7, 10)
    ELSE FRatio(4, 10)

RationaleStopWords ==
    { <<"t", "h", "e">>, <<"a">>, <<"a", "n">>, <<"a", "n", "d">>,
      <<"o", "r">>, <<"b", "u", "t">>, <<"i", "n">>, <<"o", "n">>,
      <<"a", "t">>, <<"t", "o">>, <<"f", "o", "r">>, <<"o", "f">>,
      <<"w", "i", "t", "h">>, <<"i", "s">>, <<"a", "r", "e">>,
      <<"w", "a", "s">>, <<"w", "e", "r", "e">>, <<"t", "h", "i", "s">>,
      <<"t", "h", "a", "t">>, <<"i", "t">> }

justification_words ==
    { <<"b", "e", "c", "a", "u", "s", "e">>, <<"s", "i", "n", "c", "e">>,
      <<"t", "h", "e", "r", "e", "f", "o", "r", "e">>, <<"t", "h", "u", "s">>,
      <<"h", "e", "n", "c", "e">>,
      <<"a", "s", " ", "a", " ", "r", "e", "s", "u", "l", "t">>,
      <<"d", "u", "e", " ", "t", "o">>, <<"r", "e", "a", "s", "o", "n">>,
      <<"e", "x", "p", "l", "a", "i", "n", "s">>,
      <<"i", "n", "d", "i", "c", "a", "t", "e", "s">> }

educational_words ==
    { <<"p", "r", "o", "c", "e", "s", "s">>,
      <<"f", "u", "n", "c", "t", "i", "o", "n">>,
      <<"m", "e", "c", "h", "a", "n", "i", "s", "m">>,
      <<"p", "r", "i", "n", "c", "i", "p", "l", "e">>,
      <<"c", "o", "n", "c", "e", "p", "t">>, <<"m", "e", "a", "n", "s">>,
      <<"r", "e", "f", "e", "r", "s", " ", "t", "o">>,
      <<"d", "e", "f", "i", "n", "e", "d", " ", "a", "s">>,
      <<"c", "h", "a", "r", "a", "c", "t", "e", "r", "i", "z", "e", "d", " ", "b", "y">> }

alternative_words ==
    { <<"h", "o", "w", "e", "v", "e", "r">>,
      <<"w", "h", "e", "r", "e", "a", "s">>, <<"w", "h", "i", "l", "e">>,
      <<"u", "n", "l", "i", "k", "e">>,
      <<"i", "n", "c", "o", "r", "r", "e", "c", "t">>,
      <<"w", "r", "o", "n", "g">>, <<"n", "o", "t">>,
      <<"o", "t", "h", "e", "r", " ", "o", "p", "t", "i", "o", "n", "s">>,
      <<"a", "l", "t", "e", "r", "n", "a", "t", "i", "v", "e", "s">> }

\* the words of the list that occur in the text, as substrings
WordsFound(text, words) == {word \in words : Contains(LowerText(text), word)}

RationaleWeights ==
    <<FRatio(20, 100), FRatio(20, 100), FRatio(20, 100), FRatio(15, 100),
      FRatio(15, 100), FRatio(10, 100)>>

\* the six scores, in the order of their weights
RationaleComponents(rationale, question, correct_answer) ==
    << RationaleLengthScore(Len(Split(rationale))),
       KeywordOverlap(WordSet(question) \ RationaleStopWords, WordSet(rationale)),
       IF WordsFound(rationale, justification_words) # {}
       THEN FOne ELSE FRatio(5, 10),
       KeywordOverlap(WordSet(correct_answer) \ RationaleStopWords,
                      WordSet(rationale)),
       FMin(FRatio(Cardinality(WordsFound(rationale, educational_words)), 2),
            FOne),
       IF WordsFound(rationale, alternative_words) # {}
       THEN FOne ELSE FRatio(7, 10) >>

RationaleResult(components, word_count) ==
    "rationale_quality" :> Number(WeightedSum(RationaleWeights, components))
      @@ "length_score" :> Number(components[1])
      @@ "question_reference" :> Number(components[2])
      @@ "answer_justification" :> Number(components[3])
      @@ "answer_reference" :> Number(components[4])
      @@ "educational_value" :> Number(components[5])
      @@ "addresses_alternatives" :> Number(components[6])
      @@ "word_count" :> Number(FInt(word_count))

RationaleQualityMetrics(rationale, question, correct_answer) ==
    IF rationale = <<>> \/ Len(Strip(rationale)) < 10
    THEN "rationale_quality" :> Number(FZero)
           @@ "length_score" :> Number(FZero)
           @@ "question_reference" :> Number(FZero)
           @@ "answer_justification" :> Number(FZero)
           @@ "educational_value" :> Number(FZero)
    ELSE RationaleResult(RationaleComponents(rationale, question, correct_answer),
                         Len(Split(rationale)))

-----------------------------------------------------------------------------
(* calculate_dps *)

\* (0.7 * q_similarity) + (0.3 * c_similarity)
DpsScore(question_words, correct_words, distractor_words) ==
    FAdd(FMul(FRatio(7, 10), Jaccard(question_words, distractor_words)),
         FMul(FRatio(3, 10), Jaccard(correct_words, distractor_words)))

DpsScores(question, correct_answer, distractors) ==
    [i \in 1..Len(distractors) |->
        DpsScore(WordSet(question), WordSet(correct_answer),
                 WordSet(distractors[i]))]

DpsResult(dps_scores, distractors) ==
    "DPS" :> Number(Average(dps_scores))
      @@ "DPS_per_distractor" :> List(dps_scores)
      @@ "num_distractors" :> Number(FInt(Len(distractors)))

DpsMetrics(question, correct_answer, distractors) ==
    IF distractors = <<>>
    THEN "DPS" :> Number(FZero)
    ELSE DpsResult(DpsScores(question, correct_answer, distractors), distractors)

-----------------------------------------------------------------------------
(* evaluate_question_comprehensive *)

NoMetrics == <<>>

\* ord(correct_answer) - ord('A'), and 0 when no answer was parsed and the
\* caller asks for that default
CorrectIdx(correct_answer) ==
    IF correct_answer = None THEN 0
    ELSE (CHOOSE i \in 1..Len(UpperCase) : UpperCase[i] = correct_answer[1]) - 1

IdxInRange(correct_idx, options) ==
    0 <= correct_idx /\ correct_idx < Len(options)

\* the distractors without the filter: every option
DistractorsUnfiltered(options, correct_idx) == options

\* [opt for i, opt in enumerate(options) if i != correct_idx]
Distractors(options, correct_idx) ==
    SubSeq(options, 1, correct_idx) \o SubSeq(options, correct_idx + 2, Len(options))

\* question + " " + " ".join(options), the options only when there are any
FullText(question_data) ==
    IF question_data.options # <<>>
    THEN question_data.question \o <<" ">> \o Join(question_data.options)
    ELSE question_data.question

\* step 4: DPS and the detailed distractor quality, when the answer names
\* one of the options
DistractorSteps(question_data) ==
    LET options     == question_data.options
        correct_idx == CorrectIdx(question_data.correct_answer)
    IN  IF options # <<>> /\ question_data.correct_answer # None
           /\ IdxInRange(correct_idx, options)
        THEN Update(DpsMetrics(question_data.question, options[correct_idx + 1],
                               Distractors(options, correct_idx)),
                    DistractorQualityMetrics(question_data.question,
                                             options[correct_idx + 1],
                                             Distractors(options, correct_idx)))
        ELSE NoMetrics

\* step 6: the rationale, scored against option A when no answer was parsed
RationaleStep(question_data) ==
    LET options     == question_data.options
        correct_idx == CorrectIdx(question_data.correct_answer)
        correct_answer ==
            IF options # <<>> /\ IdxInRange(correct_idx, options)
            THEN options[correct_idx + 1] ELSE <<>>
    IN  IF question_data.explanation # <<>>
        THEN RationaleQualityMetrics(question_data.explanation,
                                     question_data.question, correct_answer)
        ELSE NoMetrics

\* steps 1, 2, 3 and 5: the clarity of a question that is not empty, the
\* relevance when there are options too, the readability of the full
\* text and the similarity of the options
ClarityStep(question_data) ==
    IF question_data.question # <<>> THEN ClarityMetrics(question_data.question)
    ELSE NoMetrics

RelevanceStep(question_data, knowledge_base) ==
    IF question_data.question # <<>> /\ question_data.options # <<>>
    THEN RelevanceMetrics(question_data.question, question_data.options,
                          knowledge_base)
    ELSE NoMetrics

ReadabilityStep(question_data) ==
    IF FullText(question_data) # <<>>
    THEN ReadabilityMetrics(FullText(question_data)) ELSE NoMetrics

SosStep(question_data) ==
    IF question_data.options # <<>> THEN SosMetrics(question_data.options)
    ELSE NoMetrics

EvaluateQuestionComprehensive(question_data, knowledge_base) ==
    Update(Update(Update(Update(Update(ClarityStep(question_data),
                                       RelevanceStep(question_data, knowledge_base)),
                                ReadabilityStep(question_data)),
                         DistractorSteps(question_data)),
                  SosStep(question_data)),
           RationaleStep(question_data))

-----------------------------------------------------------------------------
(* The arguments the scorers are called with *)

\* " "
Blank ==
    <<" ">>

\* "foo bar"
FooBar ==
    <<"f", "o", "o", " ", "b", "a", "r">>

\* "Foo  BAR"
FooBarCased ==
    <<"F", "o", "o", " ", " ", "B", "A", "R">>

\* "foo baz"
FooBaz ==
    <<"f", "o", "o", " ", "b", "a", "z">>

\* "the cell wall"
CellWall ==
    <<"t", "h", "e", " ", "c", "e", "l", "l", " ", "w", "a", "l", "l">>

\* "the cell membrane"
CellMembrane ==
    <<"t", "h", "e", " ", "c", "e", "l", "l", " ", "m", "e", "m", "b", "r",
      "a", "n", "e">>

\* "All of the above"
AllOfTheAbove ==
    <<"A", "l", "l", " ", "o", "f", " ", "t", "h", "e", " ", "a", "b", "o",
      "v", "e">>

\* "it is the part of a cell that makes energy"
LongOption ==
    <<"i", "t", " ", "i", "s", " ", "t", "h", "e", " ", "p", "a", "r", "t",
      " ", "o", "f", " ", "a", " ", "c", "e", "l", "l", " ", "t", "h", "a",
      "t", " ", "m", "a", "k", "e", "s", " ", "e", "n", "e", "r", "g", "y">>

OptionLists ==
    { <<>>, <<Foo>>, <<Foo, Foo>>, <<<<>>, <<>>>>, <<Blank, Blank>>,
      <<Foo, Bar>>, <<FooBar, FooBar>>, <<FooBar, FooBarCased>>,
      <<FooBar, FooBaz>>, <<Foo, Bar, Baz>>,
      <<CellWall, CellMembrane, LongOption>>, <<Foo, Bar, Baz, Qux>>,
      <<CellWall, CellMembrane, AllOfTheAbove, LongOption>>,
      <<FooBar, FooBaz, FooBar, <<>>>> }

\* "What is the cell wall?"
WhatIsTheCellWall ==
    <<"W", "h", "a", "t", " ", "i", "s", " ", "t", "h", "e", " ", "c", "e",
      "l", "l", " ", "w", "a", "l", "l", "?">>

\* "What is the capital of France?"
CapitalOfFrance ==
    <<"W", "h", "a", "t", " ", "i", "s", " ", "t", "h", "e", " ", "c", "a",
      "p", "i", "t", "a", "l", " ", "o", "f", " ", "F", "r", "a", "n", "c",
      "e", "?">>

\* "Which part of a cell makes the energy that it needs?"
WhichPartMakesEnergy ==
    <<"W", "h", "i", "c", "h", " ", "p", "a", "r", "t", " ", "o", "f", " ",
      "a", " ", "c", "e", "l", "l", " ", "m", "a", "k", "e", "s", " ", "t",
      "h", "e", " ", "e", "n", "e", "r", "g", "y", " ", "t", "h", "a", "t",
      " ", "i", "t", " ", "n", "e", "e", "d", "s", "?">>

\* "Which one is not a cell?"
WhichIsNotACell ==
    <<"W", "h", "i", "c", "h", " ", "o", "n", "e", " ", "i", "s", " ", "n",
      "o", "t", " ", "a", " ", "c", "e", "l", "l", "?">>

\* "Why is it never not so?"
NeverNot ==
    <<"W", "h", "y", " ", "i", "s", " ", "i", "t", " ", "n", "e", "v", "e",
      "r", " ", "n", "o", "t", " ", "s", "o", "?">>

\* "What is some usual notation here?"
SomeNotation ==
    <<"W", "h", "a", "t", " ", "i", "s", " ", "s", "o", "m", "e", " ", "u",
      "s", "u", "a", "l", " ", "n", "o", "t", "a", "t", "i", "o", "n", " ",
      "h", "e", "r", "e", "?">>

\* "The cell wall"
CellWallStatement ==
    <<"T", "h", "e", " ", "c", "e", "l", "l", " ", "w", "a", "l", "l">>

\* "What? Why is it so?"
TwoQuestions ==
    <<"W", "h", "a", "t", "?", " ", "W", "h", "y", " ", "i", "s", " ", "i",
      "t", " ", "s", "o", "?">>

\* "The cell wall is what?"
WallIsWhat ==
    <<"T", "h", "e", " ", "c", "e", "l", "l", " ", "w", "a", "l", "l", " ",
      "i", "s", " ", "w", "h", "a", "t", "?">>

\* "the of the"
OnlyStopWords ==
    <<"t", "h", "e", " ", "o", "f", " ", "t", "h", "e">>

\* "WHAT  is a foo bar or a foo baz?"
WhatIsFooBar ==
    <<"W", "H", "A", "T", " ", " ", "i", "s", " ", "a", " ", "f", "o", "o",
      " ", "b", "a", "r", " ", "o", "r", " ", "a", " ", "f", "o", "o", " ",
      "b", "a", "z", "?">>

Questions ==
    { <<>>, Blank, WhatIsTheCellWall, CapitalOfFrance,
      WhichPartMakesEnergy, WhichIsNotACell, NeverNot, SomeNotation,
      CellWallStatement, TwoQuestions, WallIsWhat, OnlyStopWords,
      WhatIsFooBar }

\* "it is so."
TooShort ==
    <<"i", "t", " ", "i", "s", " ", "s", "o", ".">>

\* "because reasons."
ShortRationale ==
    <<"b", "e", "c", "a", "u", "s", "e", " ", "r", "e", "a", "s", "o", "n",
      "s", ".">>

\* "The wall of a cell gives it shape and holds it up."
PlainRationale ==
    <<"T", "h", "e", " ", "w", "a", "l", "l", " ", "o", "f", " ", "a", " ",
      "c", "e", "l", "l", " ", "g", "i", "v", "e", "s", " ", "i", "t", " ",
      "s", "h", "a", "p", "e", " ", "a", "n", "d", " ", "h", "o", "l", "d",
      "s", " ", "i", "t", " ", "u", "p", ".">>

\* "What is the cell wall? It is the layer around a cell because the concept means a wall of stiff fibre, while the membrane is not one."
FullRationale ==
    <<"W", "h", "a", "t", " ", "i", "s", " ", "t", "h", "e", " ", "c", "e",
      "l", "l", " ", "w", "a", "l", "l", "?", " ", "I", "t", " ", "i", "s",
      " ", "t", "h", "e", " ", "l", "a", "y", "e", "r", " ", "a", "r", "o",
      "u", "n", "d", " ", "a", " ", "c", "e", "l", "l", " ", "b", "e", "c",
      "a", "u", "s", "e", " ", "t", "h", "e", " ", "c", "o", "n", "c", "e",
      "p", "t", " ", "m", "e", "a", "n", "s", " ", "a", " ", "w", "a", "l",
      "l", " ", "o", "f", " ", "s", "t", "i", "f", "f", " ", "f", "i", "b",
      "r", "e", ",", " ", "w", "h", "i", "l", "e", " ", "t", "h", "e", " ",
      "m", "e", "m", "b", "r", "a", "n", "e", " ", "i", "s", " ", "n", "o",
      "t", " ", "o", "n", "e", ".">>

\* "Since foo is a process, bar is wrong. See e.g. Fig. 1.5 for more."
FooRationale ==
    <<"S", "i", "n", "c", "e", " ", "f", "o", "o", " ", "i", "s", " ", "a",
      " ", "p", "r", "o", "c", "e", "s", "s", ",", " ", "b", "a", "r", " ",
      "i", "s", " ", "w", "r", "o", "n", "g", ".", " ", "S", "e", "e", " ",
      "e", ".", "g", ".", " ", "F", "i", "g", ".", " ", "1", ".", "5", " ",
      "f", "o", "r", " ", "m", "o", "r", "e", ".">>

Rationales ==
    { <<>>, TooShort, ShortRationale, PlainRationale, FullRationale,
      FooRationale }

\* "The cell wall is a stiff layer. What a membrane does is another matter."
CellNotes ==
    <<"T", "h", "e", " ", "c", "e", "l", "l", " ", "w", "a", "l", "l", " ",
      "i", "s", " ", "a", " ", "s", "t", "i", "f", "f", " ", "l", "a", "y",
      "e", "r", ".", " ", "W", "h", "a", "t", " ", "a", " ", "m", "e", "m",
      "b", "r", "a", "n", "e", " ", "d", "o", "e", "s", " ", "i", "s", " ",
      "a", "n", "o", "t", "h", "e", "r", " ", "m", "a", "t", "t", "e", "r",
      ".">>

KnowledgeBases ==
    { None, Some(<<>>), Some(CellNotes), Some(FooBar) }

\* the answer letters parse_question_block returns, None for unset
Answers ==
    { None, Some("A"), Some("B"), Some("C"), Some("D") }

-----------------------------------------------------------------------------
(* The scorers called on their own, and on a whole question *)

QuestionData(question, options, correct_answer, explanation, knowledge_base) ==
    [ question       |-> question,
      options        |-> options,
      correct_answer |-> correct_answer,
      explanation    |-> explanation,
      knowledge_base |-> knowledge_base ]

CellOptions == <<CellWall, CellMembrane, AllOfTheAbove, LongOption>>

\* one question with its options, answer, rationale and knowledge base, and
\* the same with each part varied in turn
ScorerInputs ==
    {QuestionData(q, CellOptions, Some("A"), FullRationale, None) :
        q \in Questions}
    \cup {QuestionData(WhatIsTheCellWall, options, answer, FullRationale, None) :
            options \in OptionLists, answer \in {None, Some("A"), Some("C")}}
    \cup {QuestionData(WhatIsTheCellWall, CellOptions, answer, rationale, None) :
            answer \in Answers, rationale \in Rationales}
    \cup {QuestionData(q, options, Some("A"), ShortRationale, kb) :
            q \in {<<>>, OnlyStopWords, WhatIsFooBar},
            options \in {<<>>, <<FooBar, FooBaz, FooBar, <<>>>>},
            kb \in KnowledgeBases}
    \cup {QuestionData(q, options, None, <<>>, None) :
            q \in {<<>>, Blank}, options \in {<<>>, <<<<>>, <<>>>>, <<Blank, Blank>>}}

\* the option the answer names and the other options, as the callers of
\* calculate_dps take them from a parsed question
CorrectOption(question_data) ==
    IF IdxInRange(CorrectIdx(question_data.correct_answer), question_data.options)
    THEN question_data.options[CorrectIdx(question_data.correct_answer) + 1]
    ELSE <<>>

OtherOptions(question_data) ==
    IF IdxInRange(CorrectIdx(question_data.correct_answer), question_data.options)
    THEN Distractors(question_data.options,
                     CorrectIdx(question_data.correct_answer))
    ELSE question_data.options

ScorerInit ==
    /\ profile = NewProfile(UserId)
    /\ disk = Absent
    /\ op = "init"
    /\ ret = None
    /\ raised = "none"
    /\ clock = 0
    /\ block = <<>>
    /\ parsed = None
    /\ args \in ScorerInputs
    /\ scorer = "none"
    /\ metrics = None
    /\ files = None
    /\ aggregate = None
    /\ session = None
    /\ heap = <<>>
    /\ objects = <<>>
    /\ run = None

\* each action is a call of one scorer: its name and the dict it returns
CalculateClarity ==
    /\ scorer = "none"
    /\ scorer' = "calculate_clarity"
    /\ metrics' = Some(ClarityMetrics(args.question))
    /\ UNCHANGED <<args, profileVars, parserVars, batchVars, objectVars, driverVars>>

CalculateRelevance ==
    /\ scorer = "none"
    /\ scorer' = "calculate_relevance"
    /\ metrics' = Some(RelevanceMetrics(args.question, args.options,
                                     args.knowledge_base))
    /\ UNCHANGED <<args, profileVars, parserVars, batchVars, objectVars, driverVars>>

CalculateReadabilityLevel ==
    /\ scorer = "none"
    /\ scorer' = "calculate_readability_level"
    /\ metrics' = Some(ReadabilityMetrics(FullText(args)))
    /\ UNCHANGED <<args, profileVars, parserVars, batchVars, objectVars, driverVars>>

CalculateDistractorQualityDetailed ==
    /\ scorer = "none"
    /\ scorer' = "calculate_distractor_quality_detailed"
    /\ metrics' = Some(DistractorQualityMetrics(args.question, CorrectOption(args),
                                             OtherOptions(args)))
    /\ UNCHANGED <<args, profileVars, parserVars, batchVars, objectVars, driverVars>>

CalculateRationaleQuality ==
    /\ scorer = "none"
    /\ scorer' = "calculate_rationale_quality"
    /\ metrics' = Some(RationaleQualityMetrics(args.explanation, args.question,
                                            CorrectOption(args)))
    /\ UNCHANGED <<args, profileVars, parserVars, batchVars, objectVars, driverVars>>

CalculateDps ==
    /\ scorer = "none"
    /\ scorer' = "calculate_dps"
    /\ metrics' = Some(DpsMetrics(args.question, CorrectOption(args),
                               OtherOptions(args)))
    /\ UNCHANGED <<args, profileVars, parserVars, batchVars, objectVars, driverVars>>

CalculateSos ==
    /\ scorer = "none"
    /\ scorer' = "calculate_sos"
    /\ metrics' = Some(SosMetrics(args.options))
    /\ UNCHANGED <<args, profileVars, parserVars, batchVars, objectVars, driverVars>>

EvaluateQuestion ==
    /\ scorer = "none"
    /\ scorer' = "evaluate_question_comprehensive"
    /\ metrics' = Some(EvaluateQuestionComprehensive(args, args.knowledge_base))
    /\ UNCHANGED <<args, profileVars, parserVars, batchVars, objectVars, driverVars>>

ScorerNext ==
    \/ CalculateClarity
    \/ CalculateRelevance
    \/ CalculateReadabilityLevel
    \/ CalculateDistractorQualityDetailed
    \/ CalculateRationaleQuality
    \/ CalculateDps
    \/ CalculateSos
    \/ EvaluateQuestion

ScorerSpec == ScorerInit /\ [][ScorerNext]_vars

-----------------------------------------------------------------------------
(* evaluate_question_set_comprehensive *)

\* "Question \d+:" at position i
QuestionHeaderAt(s, i) ==
    /\ LitAt(s, i, <<"Q", "u", "e", "s", "t", "i", "o", "n", " ">>)
    /\ SkipWhile(s, i + 9, Digits) > i + 9
    /\ At(s, SkipWhile(s, i + 9, Digits)) = ":"

\* re.findall(r'Question \d+:.*?(?=Question \d+:|$)', s, re.DOTALL): a block
\* runs from a header up to the next header, the last block up to "$"
QuestionBlocks(s) ==
    LET starts  == {i \in 1..Len(s) : QuestionHeaderAt(s, i)}
        end     == MinOf({k \in 1..(Len(s) + 1) : EndAt(s, k)})
        stop(i) == MinOf({j \in starts : j > i} \cup {end})
    IN  <<>> \o [k \in 1..Cardinality(starts) |->
                    SubSeq(s, Nth(starts, k), stop(Nth(starts, k)) - 1)]

ParsedQuestions(questions_text) ==
    LET question_blocks == QuestionBlocks(questions_text)
    IN  <<>> \o [i \in 1..Len(question_blocks) |->
                    ParseQuestionBlock(question_blocks[i])]

exclude_from_avg ==
    {"DPS_per_distractor", "pairwise_similarities", "readability_level",
     "ease_interpretation"}

\* the keys of all the results
AllMetrics(all_results) ==
    UNION {DOMAIN all_results[i] : i \in 1..Len(all_results)}

\* the values of a metric in the results that have it, of whatever kind
ValuesOfAnyKind(all_results, metric) ==
    LET present == {i \in 1..Len(all_results) : metric \in DOMAIN all_results[i]}
    IN  <<>> \o [k \in 1..Cardinality(present) |->
                    all_results[Nth(present, k)][metric].number]

\* the values to aggregate: none for an excluded metric, else the values
\* in the results that have the metric as a number
Values(all_results, metric) ==
    IF metric \in exclude_from_avg THEN <<>>
    ELSE LET numeric == {i \in 1..Len(all_results) :
                            /\ metric \in DOMAIN all_results[i]
                            /\ IsNumber(all_results[i][metric])}
         IN  <<>> \o [k \in 1..Cardinality(numeric) |->
                         all_results[Nth(numeric, k)][metric].number]

\* min(values) and max(values)
MinValue(values) ==
    values[CHOOSE i \in 1..Len(values) :
               \A j \in 1..Len(values) : FLe(values[i], values[j])]

MaxValue(values) ==
    values[CHOOSE i \in 1..Len(values) :
               \A j \in 1..Len(values) : FLe(values[j], values[i])]

Statistic(prefix, values) ==
    IF prefix = "avg_" THEN FDiv(FSum(values), FInt(Len(values)))
    ELSE IF prefix = "min_" THEN MinValue(values)
    ELSE MaxValue(values)

\* aggregate["metrics"]: avg_, min_ and max_ of every metric with values
AggregateMetrics(all_results) ==
    LET entries == {<<prefix, metric>> \in
                        {"avg_", "min_", "max_"} \X AllMetrics(all_results) :
                        Values(all_results, metric) # <<>>}
        entry(key) == CHOOSE e \in entries : e[1] \o e[2] = key
    IN  [key \in {e[1] \o e[2] : e \in entries} |->
            Number(Statistic(entry(key)[1], Values(all_results, entry(key)[2])))]

\* the questions file and the knowledge base file as their texts, None for
\* a knowledge base that is not given or cannot be read
AllResults(parsed_questions, knowledge_base) ==
    <<>> \o [i \in 1..Len(parsed_questions) |->
                EvaluateQuestionComprehensive(parsed_questions[i], knowledge_base)]

\* the dict the function returns
QuestionSetResult(parsed_questions, all_results) ==
    [ num_questions        |-> Len(parsed_questions),
      metrics              |-> IF all_results # <<>>
                               THEN AggregateMetrics(all_results)
                               ELSE NoMetrics,
      per_question_results |-> all_results ]

EvaluateParsedQuestions(parsed_questions, knowledge_base) ==
    QuestionSetResult(parsed_questions,
                      AllResults(parsed_questions, knowledge_base))

EvaluateQuestionSetComprehensive(questions_text, knowledge_base) ==
    EvaluateParsedQuestions(ParsedQuestions(questions_text), knowledge_base)

-----------------------------------------------------------------------------
(* evaluate_session_questions (main.py) *)

\* what the loop computes for one block: dps_result and sos_result, each
\* NoMetrics when its scorer is not called
SessionScores(question_data) ==
    LET options     == question_data.options
        correct_idx == CorrectIdx(question_data.correct_answer)
        counted     == options # <<>> /\ Len(options) >= 4
    IN  [ counted    |-> counted,
          dps_result |->
              IF counted /\ question_data.correct_answer # None
                 /\ IdxInRange(correct_idx, options)
              THEN DpsMetrics(question_data.question, options[correct_idx + 1],
                              Distractors(options, correct_idx))
              ELSE NoMetrics,
          sos_result |-> IF counted THEN SosMetrics(options) ELSE NoMetrics ]

\* dict.get(key, 0) of a result
GetOrZero(result, key) ==
    IF key \in DOMAIN result THEN result[key].number ELSE FZero

\* the locals of evaluate_session_questions when it returns: the function
\* returns nothing and prints the two averages when a question was counted
SessionResult(scores, total_dps, total_sos, valid_questions) ==
    [ scores          |-> scores,
      total_dps       |-> total_dps,
      total_sos       |-> total_sos,
      valid_questions |-> valid_questions,
      printed         |->
          IF valid_questions > 0
          THEN Some([ avg_dps       |-> FDiv(total_dps, FInt(valid_questions)),
                      avg_diversity |-> FDiv(total_sos, FInt(valid_questions)) ])
          ELSE None ]

\* counted holds the blocks with four options or more
SessionOfCounted(scores, counted) ==
    SessionResult(scores,
                  FSum(<<>> \o [k \in 1..Cardinality(counted) |->
                          GetOrZero(scores[Nth(counted, k)].dps_result, "DPS")]),
                  FSum(<<>> \o [k \in 1..Cardinality(counted) |->
                          GetOrZero(scores[Nth(counted, k)].sos_result,
                                    "option_diversity")]),
                  Cardinality(counted))

SessionOfScores(scores) ==
    SessionOfCounted(scores, {i \in 1..Len(scores) : scores[i].counted})

SessionOfParsed(parsed_questions) ==
    SessionOfScores(<<>> \o [i \in 1..Len(parsed_questions) |->
                                SessionScores(parsed_questions[i])])

EvaluateSessionQuestions(questions_text) ==
    SessionOfParsed(ParsedQuestions(questions_text))

-----------------------------------------------------------------------------
(* The questions files evaluated: no block, one block or two, of blocks    *)
(* with four options or fewer, with an answer line or none                 *)

\* "Question 1: What is the cell wall?\nA) the cell wall\nB) the cell membrane\nC) All of the above\nD) it makes energy\nCorrect Answer: A\nExplanation: The wall of a cell gives it shape.\n\n"
BlockFull ==
    <<"Q", "u", "e", "s", "t", "i", "o", "n", " ", "1", ":", " ", "W", "h",
      "a", "t", " ", "i", "s", " ", "t", "h", "e", " ", "c", "e", "l", "l",
      " ", "w", "a", "l", "l", "?", "\n", "A", ")", " ", "t", "h", "e", " ",
      "c", "e", "l", "l", " ", "w", "a", "l", "l", "\n", "B", ")", " ", "t",
      "h", "e", " ", "c", "e", "l", "l", " ", "m", "e", "m", "b", "r", "a",
      "n", "e", "\n", "C", ")", " ", "A", "l", "l", " ", "o", "f", " ", "t",
      "h", "e", " ", "a", "b", "o", "v", "e", "\n", "D", ")", " ", "i", "t",
      " ", "m", "a", "k", "e", "s", " ", "e", "n", "e", "r", "g", "y", "\n",
      "C", "o", "r", "r", "e", "c", "t", " ", "A", "n", "s", "w", "e", "r",
      ":", " ", "A", "\n", "E", "x", "p", "l", "a", "n", "a", "t", "i", "o",
      "n", ":", " ", "T", "h", "e", " ", "w", "a", "l", "l", " ", "o", "f",
      " ", "a", " ", "c", "e", "l", "l", " ", "g", "i", "v", "e", "s", " ",
      "i", "t", " ", "s", "h", "a", "p", "e", ".", "\n", "\n">>

\* "Question 2: What is a foo bar?\nA) foo bar\nB) foo baz\nC) bar\nCorrect Answer: B\nExplanation: because reasons.\n\n"
BlockThreeOptions ==
    <<"Q", "u", "e", "s", "t", "i", "o", "n", " ", "2", ":", " ", "W", "h",
      "a", "t", " ", "i", "s", " ", "a", " ", "f", "o", "o", " ", "b", "a",
      "r", "?", "\n", "A", ")", " ", "f", "o", "o", " ", "b", "a", "r",
      "\n", "B", ")", " ", "f", "o", "o", " ", "b", "a", "z", "\n", "C",
      ")", " ", "b", "a", "r", "\n", "C", "o", "r", "r", "e", "c", "t", " ",
      "A", "n", "s", "w", "e", "r", ":", " ", "B", "\n", "E", "x", "p", "l",
      "a", "n", "a", "t", "i", "o", "n", ":", " ", "b", "e", "c", "a", "u",
      "s", "e", " ", "r", "e", "a", "s", "o", "n", "s", ".", "\n", "\n">>

\* "Question 3: Which one is not a cell?\nA) foo\nB) bar\nC) baz\nD) qux\nExplanation: It is so.\n"
BlockNoAnswer ==
    <<"Q", "u", "e", "s", "t", "i", "o", "n", " ", "3", ":", " ", "W", "h",
      "i", "c", "h", " ", "o", "n", "e", " ", "i", "s", " ", "n", "o", "t",
      " ", "a", " ", "c", "e", "l", "l", "?", "\n", "A", ")", " ", "f", "o",
      "o", "\n", "B", ")", " ", "b", "a", "r", "\n", "C", ")", " ", "b",
      "a", "z", "\n", "D", ")", " ", "q", "u", "x", "\n", "E", "x", "p",
      "l", "a", "n", "a", "t", "i", "o", "n", ":", " ", "I", "t", " ", "i",
      "s", " ", "s", "o", ".", "\n">>

\* "Question 4: Why is it never not so?\n"
BlockStemOnly ==
    <<"Q", "u", "e", "s", "t", "i", "o", "n", " ", "4", ":", " ", "W", "h",
      "y", " ", "i", "s", " ", "i", "t", " ", "n", "e", "v", "e", "r", " ",
      "n", "o", "t", " ", "s", "o", "?", "\n">>

\* "Question 5: What is the capital of France?\nA) foo bar\nB) foo bar\nC) foo baz\nD) bar\nCorrect Answer: D\n"
BlockAnswerD ==
    <<"Q", "u", "e", "s", "t", "i", "o", "n", " ", "5", ":", " ", "W", "h",
      "a", "t", " ", "i", "s", " ", "t", "h", "e", " ", "c", "a", "p", "i",
      "t", "a", "l", " ", "o", "f", " ", "F", "r", "a", "n", "c", "e", "?",
      "\n", "A", ")", " ", "f", "o", "o", " ", "b", "a", "r", "\n", "B",
      ")", " ", "f", "o", "o", " ", "b", "a", "r", "\n", "C", ")", " ", "f",
      "o", "o", " ", "b", "a", "z", "\n", "D", ")", " ", "b", "a", "r",
      "\n", "C", "o", "r", "r", "e", "c", "t", " ", "A", "n", "s", "w", "e",
      "r", ":", " ", "D", "\n">>

\* "Question 16: The cell wall is what?\nA) the cell wall\nB) the cell membrane\n"
BlockTwoOptions ==
    <<"Q", "u", "e", "s", "t", "i", "o", "n", " ", "1", "6", ":", " ", "T",
      "h", "e", " ", "c", "e", "l", "l", " ", "w", "a", "l", "l", " ", "i",
      "s", " ", "w", "h", "a", "t", "?", "\n", "A", ")", " ", "t", "h", "e",
      " ", "c", "e", "l", "l", " ", "w", "a", "l", "l", "\n", "B", ")", " ",
      "t", "h", "e", " ", "c", "e", "l", "l", " ", "m", "e", "m", "b", "r",
      "a", "n", "e", "\n">>

\* "Question 7:\nA) foo\nB) bar\nC) baz\nD) qux\nCorrect Answer: C\nExplanation: Since foo is a process, bar is wrong."
BlockNoStem ==
    <<"Q", "u", "e", "s", "t", "i", "o", "n", " ", "7", ":", "\n", "A", ")",
      " ", "f", "o", "o", "\n", "B", ")", " ", "b", "a", "r", "\n", "C",
      ")", " ", "b", "a", "z", "\n", "D", ")", " ", "q", "u", "x", "\n",
      "C", "o", "r", "r", "e", "c", "t", " ", "A", "n", "s", "w", "e", "r",
      ":", " ", "C", "\n", "E", "x", "p", "l", "a", "n", "a", "t", "i", "o",
      "n", ":", " ", "S", "i", "n", "c", "e", " ", "f", "o", "o", " ", "i",
      "s", " ", "a", " ", "p", "r", "o", "c", "e", "s", "s", ",", " ", "b",
      "a", "r", " ", "i", "s", " ", "w", "r", "o", "n", "g", ".">>

\* "Some notes.\nQuestion one: why?\n"
NoQuestions ==
    <<"S", "o", "m", "e", " ", "n", "o", "t", "e", "s", ".", "\n", "Q", "u",
      "e", "s", "t", "i", "o", "n", " ", "o", "n", "e", ":", " ", "w", "h",
      "y", "?", "\n">>

QuestionBlockTexts ==
    { BlockFull, BlockThreeOptions, BlockNoAnswer, BlockStemOnly,
      BlockAnswerD, BlockTwoOptions, BlockNoStem }

QuestionsTexts ==
    {<<>>, NoQuestions} \cup QuestionBlockTexts
      \cup {first \o second : first \in QuestionBlockTexts,
                               second \in QuestionBlockTexts}

Files(questions, knowledge_base) ==
    [questions |-> questions, knowledge_base |-> knowledge_base]

\* without a knowledge base, and the files of one block with one
BatchFiles ==
    {Files(questions, None) : questions \in QuestionsTexts}
      \cup {Files(questions, Some(CellNotes)) :
                questions \in {<<>>} \cup QuestionBlockTexts}

BatchInit ==
    /\ profile = NewProfile(UserId)
    /\ disk = Absent
    /\ op = "init"
    /\ ret = None
    /\ raised = "none"
    /\ clock = 0
    /\ block = <<>>
    /\ parsed = None
    /\ args = None
    /\ scorer = "none"
    /\ metrics = None
    /\ files \in BatchFiles
    /\ aggregate = None
    /\ session = None
    /\ heap = <<>>
    /\ objects = <<>>
    /\ run = None

EvaluateQuestionSet ==
    /\ aggregate = None
    /\ aggregate' = Some(EvaluateQuestionSetComprehensive(files.questions,
                                                          files.knowledge_base))
    /\ UNCHANGED <<files, session, profileVars, parserVars, scorerVars,
                 objectVars, driverVars>>

EvaluateSession ==
    /\ session = None
    /\ session' = Some(EvaluateSessionQuestions(files.questions))
    /\ UNCHANGED <<files, aggregate, profileVars, parserVars, scorerVars,
                 objectVars, driverVars>>

BatchNext ==
    \/ EvaluateQuestionSet
    \/ EvaluateSession

BatchSpec == BatchInit /\ [][BatchNext]_vars

-----------------------------------------------------------------------------
(* UserProfile objects: the lists and dicts their attributes are bound to *)

\* cells of the heap
MaxCells == 12

\* main() binds profile (main.py:394), interactive_user_session binds
\* user_profile (main.py:247); both stay bound while the menu loop runs
Holders == {"profile", "user_profile"}

UserIds == {"alice", "bob"}

\* the lists and dicts of a profile, in the order __init__ creates them
CellsOf(p) ==
    <<p.performance_history, p.topics_mastery, p.response_times,
      p.confidence_scores>>

\* an object whose response_times is bound to the first list of that name
\* ever created, as an attribute of the class would be
ObjectAtShared(p, base) ==
    [p EXCEPT !.performance_history = base + 1,
              !.topics_mastery = base + 2,
              !.response_times = 3,
              !.confidence_scores = base + 4]

\* the object of a new profile: each list or dict is a new cell, and the
\* attribute holds its address (self.performance_history = [], ...)
ObjectAt(p, base) ==
    [p EXCEPT !.performance_history = base + 1,
              !.topics_mastery = base + 2,
              !.response_times = base + 3,
              !.confidence_scores = base + 4]

\* the profile an object stands for: its attributes with the lists and dicts
\* they refer to
Value(h, o) ==
    [o EXCEPT !.performance_history = h[o.performance_history],
              !.topics_mastery = h[o.topics_mastery],
              !.response_times = h[o.response_times],
              !.confidence_scores = h[o.confidence_scores]]

\* the heap after add_response changed the lists and the dict of o in place:
\* performance_history, response_times, topics_mastery, confidence_scores
Stored(h, o, p) ==
    [a \in DOMAIN h |->
        IF a = o.confidence_scores THEN p.confidence_scores
        ELSE IF a = o.topics_mastery THEN p.topics_mastery
        ELSE IF a = o.response_times THEN p.response_times
        ELSE IF a = o.performance_history THEN p.performance_history
        ELSE h[a]]

\* the object after add_response assigned accuracy_rate and skill_level
Assigned(o, p) ==
    [o EXCEPT !.accuracy_rate = p.accuracy_rate,
              !.skill_level = p.skill_level]

\* holder = UserProfile(user_id)
Construct(holder, user_id) ==
    /\ Len(heap) + 4 <= MaxCells
    /\ heap' = heap \o CellsOf(NewProfile(user_id))
    /\ objects' = (holder :> ObjectAt(NewProfile(user_id), Len(heap))) @@ objects
    /\ op' = "__init__"
    /\ ret' = None
    /\ raised' = "none"
    /\ UNCHANGED <<profile, disk, clock, parserVars, scorerVars, batchVars,
                   driverVars>>

\* holder = UserProfile.load(user_id): json.load builds new lists and dicts
\* and __dict__.update binds the attributes to them; when load raises the
\* name stays as it was
ObjectLoad(holder) ==
    /\ Len(heap) + 4 <= MaxCells
    /\ LET r == LoadResult(UserId, disk)
       IN  /\ heap' = IF r.exc = "none" THEN heap \o CellsOf(r.profile[1])
                      ELSE heap
           /\ objects' = IF r.exc = "none"
                         THEN (holder :> ObjectAt(r.profile[1], Len(heap))) @@ objects
                         ELSE objects
           /\ ret' = r.profile
           /\ raised' = r.exc
    /\ op' = "load"
    /\ UNCHANGED <<profile, disk, clock, parserVars, scorerVars, batchVars,
                   driverVars>>

\* objects[holder].add_response(...)
ObjectAddResponse(holder, question_id, correct, time_taken, topic, confidence) ==
    /\ holder \in DOMAIN objects
    /\ clock < MaxClock
    /\ LET o  == objects[holder]
           p  == Value(heap, o)
           p1 == Recorded(p, clock, question_id, correct, time_taken,
                          o.current_difficulty, topic, confidence)
           s  == UpdateSkillLevel(p1, correct, o.current_difficulty,
                                  time_taken, confidence)
           p2 == IF Raises(s) THEN p1 ELSE [p1 EXCEPT !.skill_level = s]
       IN  /\ Len(p.performance_history) < MaxHist
           /\ heap' = Stored(heap, o, p2)
           /\ objects' = [objects EXCEPT ![holder] = Assigned(o, p2)]
           /\ raised' = ExcName(s)
    /\ clock' = clock + 1
    /\ op' = "add_response"
    /\ ret' = None
    /\ UNCHANGED <<profile, disk, parserVars, scorerVars, batchVars, driverVars>>

\* objects[holder].save()
ObjectSave(holder) ==
    /\ holder \in DOMAIN objects
    /\ objects[holder].user_id = UserId
    /\ LET r == SaveResult(Value(heap, objects[holder]), disk)
       IN  /\ disk' = r.disk
           /\ raised' = r.exc
    /\ op' = "save"
    /\ ret' = None
    /\ UNCHANGED <<profile, clock, parserVars, scorerVars, batchVars,
                   objectVars, driverVars>>

ObjectsNext ==
    \/ \E holder \in Holders, user_id \in UserIds : Construct(holder, user_id)
    \/ \E holder \in Holders : ObjectLoad(holder)
    \/ \E holder \in Holders, question_id \in QuestionIds, correct \in BOOLEAN,
          time_taken \in SessionTimes, topic \in {"algebra"},
          confidence \in SessionConfidences :
          ObjectAddResponse(holder, question_id, correct, time_taken, topic,
                            confidence)
    \/ \E holder \in Holders : ObjectSave(holder)

ObjectsSpec == Init /\ [][ObjectsNext]_vars

-----------------------------------------------------------------------------
(* interactive_user_session (main.py) *)

\* for round_num in range(1, 4)
LastRound == 3

\* the parameter questions_per_round
questions_per_round == 2

\* what phase2_question_generation returns: None when generation failed,
\* else a text; of the text the session uses the question blocks, and of a
\* block whether extract_correct_answer finds an answer in it
GeneratedQuestions ==
    {None, Some(<<>>), Some(<<TRUE>>), Some(<<FALSE>>), Some(<<FALSE, TRUE>>),
     Some(<<TRUE, TRUE, TRUE>>)}

\* what the learner types at "Confidence (1-5): ": a number, in range or
\* not, nothing, or text that int() rejects
ConfidenceInputs == {"4", "0", "", "high"}

\* int(input(...).strip() or "3")
ParseConfidence(text) ==
    CASE text = "" -> Some(3)
      [] text = "4" -> Some(4)
      [] text = "0" -> Some(0)
      [] OTHER -> None

\* the difficulty the session reads out of the analysis text
AnalysedDifficulties == {"easy", "medium", "hard"}

MinOfTwo(a, b) == IF a <= b THEN a ELSE b

\* the session has returned or an exception has left it
Ended(r) == r # None /\ r.pc \in {"returned", "raised"}

\* the session leaves by return, or by an exception nothing catches
Leave(r, pc, exception) == [r EXCEPT !.pc = pc, !.exception = exception]

\* user_profile = UserProfile.load(user_id); knowledge_base =
\* phase1_knowledge_prep(...); return when it is empty
StartSession(knowledge_base_ok) ==
    /\ run = None \/ Ended(run)
    /\ LET r == LoadResult(UserId, disk)
           started == [ pc              |-> "round",
                        round_num       |-> 1,
                        difficulty      |-> IF r.exc = "none"
                                            THEN r.profile[1].current_difficulty
                                            ELSE "medium",
                        question_blocks |-> <<>>,
                        i               |-> 0,
                        correct_count   |-> 0,
                        recorded        |-> 0,
                        saved           |-> FALSE,
                        exception       |-> "none" ]
       IN  /\ profile' = IF r.exc = "none" THEN r.profile[1] ELSE profile
           /\ ret' = r.profile
           /\ raised' = r.exc
           /\ run' = IF r.exc # "none" THEN Leave(started, "raised", r.exc)
                     ELSE IF ~knowledge_base_ok
                     THEN Leave(started, "returned", "none")
                     ELSE started
    /\ op' = "load"
    /\ UNCHANGED <<disk, clock, parserVars, scorerVars, batchVars, objectVars>>

\* questions = phase2_question_generation(...); return when there are none;
\* else re.findall gives the question blocks of the round
GenerateQuestions(questions) ==
    /\ run # None /\ run.pc = "round"
    /\ run' = IF questions = None THEN Leave(run, "returned", "none")
              ELSE [run EXCEPT !.pc = "question",
                               !.question_blocks = questions[1],
                               !.i = 0,
                               !.correct_count = 0]
    /\ UNCHANGED <<profileVars, parserVars, scorerVars, batchVars, objectVars>>

\* actual_questions = min(questions_per_round, len(question_blocks))
ActualQuestions(r) == MinOfTwo(questions_per_round, Len(r.question_blocks))

\* a block without a correct answer: continue
SkipQuestion ==
    /\ run # None /\ run.pc = "question"
    /\ run.i < ActualQuestions(run)
    /\ ~run.question_blocks[run.i + 1]
    /\ run' = [run EXCEPT !.i = run.i + 1]
    /\ UNCHANGED <<profileVars, parserVars, scorerVars, batchVars, objectVars>>

\* the learner answers; int() of the confidence typed may raise ValueError;
\* else the response is recorded with user_profile.add_response
AnswerQuestion(correct, time_taken, topic, typed) ==
    /\ run # None /\ run.pc = "question"
    /\ run.i < ActualQuestions(run)
    /\ run.question_blocks[run.i + 1]
    /\ IF ParseConfidence(typed) = None
       THEN /\ run' = Leave(run, "raised", "ValueError")
            /\ UNCHANGED profileVars
       ELSE /\ Len(profile.performance_history) < MaxHist
            /\ clock < MaxClock
            /\ LET p1 == Recorded(profile, clock, "q_1_0", correct, time_taken,
                                  run.difficulty, topic, ParseConfidence(typed))
                   s  == UpdateSkillLevel(p1, correct, run.difficulty, time_taken,
                                          ParseConfidence(typed))
               IN  /\ profile' = IF Raises(s) THEN p1
                                 ELSE [p1 EXCEPT !.skill_level = s]
                   /\ raised' = ExcName(s)
                   /\ run' = IF Raises(s) THEN Leave(run, "raised", ExcName(s))
                             ELSE [run EXCEPT
                                     !.i = run.i + 1,
                                     !.recorded = run.recorded + 1,
                                     !.correct_count =
                                         run.correct_count
                                           + (IF correct THEN 1 ELSE 0)]
            /\ clock' = clock + 1
            /\ op' = "add_response"
            /\ ret' = None
            /\ UNCHANGED disk
    /\ UNCHANGED <<parserVars, scorerVars, batchVars, objectVars>>

\* the round summary prints correct_count/actual_questions*100, which raises
\* ZeroDivisionError when the round had no question blocks; then the
\* difficulty of the next round is set from the analysis
EndRound(difficulty) ==
    /\ run # None /\ run.pc = "question"
    /\ run.i = ActualQuestions(run)
    /\ IF ActualQuestions(run) = 0
       THEN /\ run' = Leave(run, "raised", "ZeroDivisionError")
            /\ UNCHANGED profileVars
       ELSE /\ profile' = [profile EXCEPT !.current_difficulty = difficulty]
            /\ run' = [run EXCEPT
                         !.difficulty = difficulty,
                         !.pc = IF run.round_num < LastRound THEN "round"
                                ELSE "final",
                         !.round_num = IF run.round_num < LastRound
                                       THEN run.round_num + 1
                                       ELSE run.round_num]
            /\ op' = "set_difficulty"
            /\ ret' = None
            /\ raised' = "none"
            /\ UNCHANGED <<disk, clock>>
    /\ UNCHANGED <<parserVars, scorerVars, batchVars, objectVars>>

\* the final statistics and user_profile.save()
FinishSession ==
    /\ run # None /\ run.pc = "final"
    /\ LET r == SaveResult(profile, disk)
       IN  /\ disk' = r.disk
           /\ raised' = r.exc
           /\ run' = IF r.exc = "none"
                     THEN [run EXCEPT !.pc = "returned", !.saved = TRUE]
                     ELSE Leave(run, "raised", r.exc)
    /\ op' = "save"
    /\ ret' = None
    /\ UNCHANGED <<profile, clock, parserVars, scorerVars, batchVars, objectVars>>

DriverNext ==
    \/ \E knowledge_base_ok \in BOOLEAN : StartSession(knowledge_base_ok)
    \/ \E questions \in GeneratedQuestions : GenerateQuestions(questions)
    \/ SkipQuestion
    \/ \E correct \in BOOLEAN, time_taken \in SessionTimes,
          typed \in ConfidenceInputs :
          AnswerQuestion(correct, time_taken, "algebra", typed)
    \/ \E difficulty \in AnalysedDifficulties : EndRound(difficulty)
    \/ FinishSession

DriverSpec == Init /\ [][DriverNext]_vars

-----------------------------------------------------------------------------
(* Claims about the learner model *)

History == profile.performance_history

LastEvent(p) == p.performance_history[Len(p.performance_history)]

\* the number of recorded responses on topic t, and of the correct ones
TopicTotal(h, t) == Cardinality({i \in 1..Len(h) : h[i].topic = t})

TopicCorrect(h, t) ==
    Cardinality({i \in 1..Len(h) : h[i].topic = t /\ h[i].correct})

MasteryOf(p, t) ==
    IF t \in DOMAIN p.topics_mastery THEN p.topics_mastery[t]
    ELSE [correct |-> 0, total |-> 0]

RECURSIVE SumTotals(_, _)
SumTotals(tm, ts) ==
    IF ts = {} THEN 0
    ELSE LET t == CHOOSE x \in ts : TRUE
         IN  tm[t].total + SumTotals(tm, ts \ {t})

\* C1: after every add_response, whatever its arguments, skill_level lies
\* in [800, 2200]
C1_SkillInRange ==
    /\ ~Raises(profile.skill_level)
    /\ RLe(R(MinSkill), profile.skill_level)
    /\ RLe(profile.skill_level, R(MaxSkill))

\* a response took the skill to a bound of the range
C1_Witness ==
    /\ op = "add_response"
    /\ Len(History) >= 1
    /\ profile.skill_level \in {R(MinSkill), R(MaxSkill)}

\* C2: after the N-th add_response, N >= 1, accuracy_rate is the number of
\* correct responses so far divided by N
C2_AccuracyExact ==
    Len(History) >= 1 =>
        /\ ~Raises(profile.accuracy_rate)
        /\ profile.accuracy_rate[1] * Len(History)
             = Cardinality({i \in 1..Len(History) : History[i].correct})
                 * profile.accuracy_rate[2]

\* two responses, the first correct and the second not: the rate is 1/2
C2_Witness ==
    /\ op = "add_response"
    /\ Len(History) = 2
    /\ History[1].correct
    /\ ~History[2].correct
    /\ profile.accuracy_rate = <<1, 2>>

\* C3: for every topic, the mastery entry counts the recorded responses on
\* that topic and the correct ones among them, and correct <= total
C3_MasteryCounts ==
    \A t \in Topics :
        /\ MasteryOf(profile, t).total = TopicTotal(History, t)
        /\ MasteryOf(profile, t).correct = TopicCorrect(History, t)
        /\ MasteryOf(profile, t).correct <= MasteryOf(profile, t).total

\* both topics answered, one of them wrongly
C3_Witness ==
    /\ DOMAIN profile.topics_mastery = Topics
    /\ \E t \in Topics : profile.topics_mastery[t].correct = 0
    /\ \E t \in Topics : profile.topics_mastery[t].correct = 1

\* C4: the history, the response times and the mastery totals count the
\* same responses
C4_LengthsAgree ==
    /\ Len(profile.performance_history) = Len(profile.response_times)
    /\ Len(profile.performance_history)
         = SumTotals(profile.topics_mastery, DOMAIN profile.topics_mastery)

\* two responses recorded on two topics
C4_Witness ==
    /\ Len(profile.performance_history) = 2
    /\ DOMAIN profile.topics_mastery = Topics

\* C5: add_response adds exactly one event at the end of the history and
\* keeps every earlier event; get_stats and save keep the history
C5_AppendOnly ==
    [][ /\ op' = "add_response" =>
              /\ Len(profile'.performance_history) = Len(History) + 1
              /\ SubSeq(profile'.performance_history, 1, Len(History)) = History
        /\ op' \in {"get_stats", "save"} =>
              profile'.performance_history = History ]_vars

\* a history of two events that was then saved
C5_Witness ==
    /\ op = "save"
    /\ Len(History) = 2
    /\ History[1].timestamp < History[2].timestamp

\* C6: load raises nothing and returns a fresh default profile when the
\* file is absent, unreadable or malformed
C6_LoadDegrades ==
    (/\ op = "load"
     /\ \/ disk.kind \in {"absent", "unreadable"}
        \/ disk.kind = "file" /\ disk.text \in CorruptTexts)
    => /\ raised = "none"
       /\ profile = NewProfile(UserId)

SkillWithUnitTimeFactor(old, e) ==
    LET cf == IF e.confidence # None /\ e.confidence[1] # 0
              THEN <<e.confidence[1], 5>> ELSE <<1, 1>>
        m  == CASE e.difficulty = "easy" -> <<4, 5>>
                [] e.difficulty = "hard" -> <<6, 5>>
                [] OTHER -> <<1, 1>>
        d  == RMul(RMul(R(30), m), cf)
    IN  RMax(R(800), RMin(R(2200), RAdd(old, IF e.correct THEN d ELSE RNeg(d))))

\* C8: add_response with time_taken <= 0 raises nothing and updates the
\* skill with time_factor 1.0
C8_NonPositiveTime ==
    [][ (op' = "add_response" /\ LastEvent(profile').time_taken <= 0) =>
            /\ raised' = "none"
            /\ profile'.skill_level
                 = SkillWithUnitTimeFactor(profile.skill_level, LastEvent(profile')) ]_vars

\* a correct response with time 0 after one with a positive time
C8_Witness ==
    /\ op = "add_response"
    /\ Len(History) = 2
    /\ History[1].time_taken > 0
    /\ History[2].time_taken = 0
    /\ History[2].correct
    /\ raised = "none"

\* C9: add_response with an unknown difficulty raises nothing and updates
\* the skill as medium does, with base_change 30
C9_UnknownDifficulty ==
    [][ (op' = "add_response"
         /\ LastEvent(profile').difficulty \notin {"easy", "medium", "hard"}) =>
            LET e == LastEvent(profile')
                before == [profile' EXCEPT !.skill_level = profile.skill_level]
            IN  /\ raised' = "none"
                /\ BaseChange(e.difficulty) = R(30)
                /\ profile'.skill_level
                     = UpdateSkillLevel(before, e.correct, "medium",
                                        e.time_taken, e.confidence) ]_vars

\* a response of unknown difficulty changed the skill
C9_Witness ==
    /\ op = "add_response"
    /\ LastEvent(profile).difficulty = "expert"
    /\ raised = "none"
    /\ profile.skill_level # R(InitialSkill)

-----------------------------------------------------------------------------
(* Claims about the question block parser *)

\* the block has a "Correct answer:" line (in any case)
HasCorrectAnswerLine(s) ==
    \E i \in 1..Len(s) :
        LitAtI(s, i, <<"c", "o", "r", "r", "e", "c", "t", " ",
                       "a", "n", "s", "w", "e", "r", ":">>)

\* the block holds "answer" or "correct" (in any case) followed by colons
\* and white space only and then by a letter A-D (in either case), or a
\* letter A-D between two pairs of asterisks
HasAnswerMarker(s) ==
    \/ \E word \in {<<"a", "n", "s", "w", "e", "r">>,
                    <<"c", "o", "r", "r", "e", "c", "t">>} :
         \E i \in 1..Len(s), k \in 1..Len(s) :
            /\ LitAtI(s, i, word)
            /\ k >= i + Len(word)
            /\ \A m \in (i + Len(word))..(k - 1) : s[m] \in ColonSpace
            /\ Lower(s[k]) \in {"a", "b", "c", "d"}
    \/ \E i \in 1..Len(s) :
         /\ i + 4 <= Len(s)
         /\ s[i] = "*" /\ s[i + 1] = "*" /\ s[i + 3] = "*" /\ s[i + 4] = "*"
         /\ Lower(s[i + 2]) \in {"a", "b", "c", "d"}

\* C10 as stated: a block without a "Correct answer:" line is parsed with
\* correct_answer unset
C10_NoCorrectAnswerLine ==
    (parsed # None /\ ~HasCorrectAnswerLine(block)) =>
        parsed[1].correct_answer = None

\* C10 as amended: a block that none of the four answer patterns matches is
\* parsed with correct_answer unset, never with "A" or another letter
C10_UnmatchedIsUnset ==
    (parsed # None /\ ~HasAnswerMarker(block)) =>
        parsed[1].correct_answer = None

\* a question with its four options and no answer marker was parsed
C10_Witness ==
    /\ parsed # None
    /\ ~HasAnswerMarker(block)
    /\ parsed[1].question # <<>>
    /\ Len(parsed[1].options) = 4
    /\ parsed[1].correct_answer = None

\* the text holds lit at some position, in any case (lit in lower case)
HoldsWord(t, lit) == \E i \in 1..Len(t) : LitAtI(t, i, lit)

\* a text a well-formed block can carry without confusing the parser: not
\* empty, no option marker, none of the words the patterns look for, and
\* no colon at its start
PlainText(t) ==
    /\ t # <<>>
    /\ t[1] # ":"
    /\ \A i \in 1..Len(t) : ~OptionMarkerAt(t, i)
    /\ ~HoldsWord(t, <<"c", "o", "r", "r", "e", "c", "t">>)
    /\ ~HoldsWord(t, <<"a", "n", "s", "w", "e", "r">>)
    /\ ~HoldsWord(t, <<"e", "x", "p", "l", "a", "n", "a", "t", "i", "o", "n">>)
    /\ ~HoldsWord(t, <<"q", "u", "e", "s", "t", "i", "o", "n">>)

C12_AtMostFourOptions ==
    parsed # None => Len(parsed[1].options) <= 4

\* C13: a block that lacks a section is parsed with that section's empty
\* value: question "", options [], correct_answer None, explanation ""
C13_MissingSectionsEmpty ==
    \A stem \in Stems, options \in OptionParts, answer \in AnswerParts,
       explanation \in ExplanationParts :
        (parsed # None /\ block = stem \o options \o answer \o explanation) =>
            /\ stem = <<>> => parsed[1].question = <<>>
            /\ options = <<>> => parsed[1].options = <<>>
            /\ answer = <<>> => parsed[1].correct_answer = None
            /\ explanation = <<>> => parsed[1].explanation = <<>>

-----------------------------------------------------------------------------
(* Claims about the scorers *)

\* the number the call returned under a name
Metric(name) == metrics[1][name].number

Returned(name) == name \in DOMAIN metrics[1]

\* C14 as stated: two identical option strings score SOS 1.0 and
\* option_diversity 0.0; two options with disjoint word sets score SOS 0.0
\* and option_diversity 1.0
C14_IdenticalOrDisjoint ==
    (scorer = "calculate_sos" /\ Len(args.options) = 2) =>
        /\ args.options[1] = args.options[2] =>
              Metric("SOS") = FOne /\ Metric("option_diversity") = FZero
        /\ WordSet(args.options[1]) \cap WordSet(args.options[2]) = {} =>
              Metric("SOS") = FZero /\ Metric("option_diversity") = FOne

\* C14 as amended: two identical option strings that hold a word score SOS
\* 1.0 and option_diversity 0.0; two options with disjoint word sets score
\* SOS 0.0 and option_diversity 1.0
C14_IdenticalWithWordsOrDisjoint ==
    (scorer = "calculate_sos" /\ Len(args.options) = 2) =>
        /\ (args.options[1] = args.options[2] /\ WordSet(args.options[1]) # {}) =>
              Metric("SOS") = FOne /\ Metric("option_diversity") = FZero
        /\ WordSet(args.options[1]) \cap WordSet(args.options[2]) = {} =>
              Metric("SOS") = FZero /\ Metric("option_diversity") = FOne

\* the same two-word option twice
C14_Witness ==
    /\ scorer = "calculate_sos"
    /\ args.options = <<FooBar, FooBar>>
    /\ Metric("SOS") = FOne
    /\ Metric("option_diversity") = FZero

\* C15 as stated: for every options list option_diversity = 1 - SOS, and
\* SOS is the average of the Jaccard similarities of all option pairs
C15_DiversityComplementsSos ==
    scorer = "calculate_sos" =>
        /\ Metric("option_diversity") = FSub(FOne, Metric("SOS"))
        /\ Metric("SOS") = Average(PairwiseSimilarities(args.options))

\* C15 as amended: for every list of two or more options option_diversity
\* = 1 - SOS and SOS is the average of the Jaccard similarities of all
\* option pairs; for a list of no or one option both are 0.0
C15_DiversityComplementsSosOfPairs ==
    scorer = "calculate_sos" =>
        IF Len(args.options) >= 2
        THEN /\ Metric("option_diversity") = FSub(FOne, Metric("SOS"))
             /\ Metric("SOS") = Average(PairwiseSimilarities(args.options))
        ELSE Metric("option_diversity") = FZero /\ Metric("SOS") = FZero

\* four options, some sharing words: neither all alike nor all different
C15_Witness ==
    /\ scorer = "calculate_sos"
    /\ Len(args.options) = 4
    /\ FLt(FZero, Metric("SOS"))
    /\ FLt(Metric("SOS"), FOne)
    /\ Metric("option_diversity") = FSub(FOne, Metric("SOS"))

-----------------------------------------------------------------------------
(* Claims about the batch evaluation *)

Prefixes == {"avg_", "min_", "max_"}

ListAndLabelMetrics ==
    {"DPS_per_distractor", "pairwise_similarities", "readability_level"}

\* the metrics that some result holds as a number
NumericMetrics(all_results) ==
    {metric \in AllMetrics(all_results) :
        \E i \in 1..Len(all_results) :
            metric \in DOMAIN all_results[i] /\ IsNumber(all_results[i][metric])}

\* what evaluate_question_comprehensive returns for the i-th block of the
\* questions file
ResultOfBlock(i) ==
    EvaluateQuestionComprehensive(ParsedQuestions(files.questions)[i],
                                  files.knowledge_base)

\* C16: every entry of the aggregate's metrics is the avg_, min_ or max_ of
\* a metric that some question holds as a number; DPS_per_distractor,
\* pairwise_similarities and readability_level get no such entry, and each
\* question's entry of per_question_results holds them as the scorers
\* returned them, as a list or a label
C16_OnlyNumbersAggregated ==
    aggregate # None =>
        LET results  == aggregate[1].per_question_results
            numeric  == NumericMetrics(results)
            returned == <<>> \o [i \in 1..Len(results) |-> ResultOfBlock(i)]
        IN  /\ \A key \in DOMAIN aggregate[1].metrics :
                  \E prefix \in Prefixes, metric \in numeric :
                      key = prefix \o metric
            /\ \A prefix \in Prefixes, metric \in ListAndLabelMetrics :
                  prefix \o metric \notin DOMAIN aggregate[1].metrics
            /\ \A i \in 1..Len(results) :
                  \A metric \in ListAndLabelMetrics \cap DOMAIN returned[i] :
                      /\ metric \in DOMAIN results[i]
                      /\ results[i][metric] = returned[i][metric]
                      /\ ~IsNumber(results[i][metric])

\* two questions, the first with all three list and label metrics, and
\* numbers aggregated
C16_Witness ==
    /\ aggregate # None
    /\ aggregate[1].num_questions = 2
    /\ ListAndLabelMetrics \subseteq DOMAIN aggregate[1].per_question_results[1]
    /\ aggregate[1].per_question_results[1]["DPS_per_distractor"].list # <<>>
    /\ {"avg_DPS", "min_clarity", "max_SOS"} \subseteq DOMAIN aggregate[1].metrics

-----------------------------------------------------------------------------
(* Claims about the scorers on empty inputs, and about the range of their  *)
(* scores                                                                  *)

Scorers ==
    {"calculate_clarity", "calculate_relevance", "calculate_readability_level",
     "calculate_dps", "calculate_distractor_quality_detailed", "calculate_sos",
     "calculate_rationale_quality"}

\* no number of a metrics dict is the value of a division by zero
NoZeroDivision(result) ==
    \A key \in DOMAIN result :
        /\ ~FRaises(result[key].number)
        /\ \A i \in 1..Len(result[key].list) : ~FRaises(result[key].list[i])

NoWords(texts) == \A i \in 1..Len(texts) : WordSet(texts[i]) = {}

\* C17: no scorer divides by zero, and each returns 0 for what it would
\* divide by a count that is zero: no keywords in the question, no option or
\* distractor, options without a word, a text without a word, no rationale
C17_ZeroCountsGuarded ==
    scorer \in Scorers =>
        /\ NoZeroDivision(metrics[1])
        /\ (scorer = "calculate_relevance"
              /\ WordSet(args.question) \ RelevanceStopWords = {}) =>
                 /\ Metric("option_relevance") = FZero
                 /\ Metric("technical_terminology") = FZero
                 /\ (args.knowledge_base \notin {None, Some(<<>>)} =>
                        Metric("knowledge_base_relevance") = FZero)
        /\ (scorer = "calculate_relevance" /\ NoWords(args.options)) =>
                 /\ Metric("option_relevance") = FZero
                 /\ (args.options = <<>> => Metric("option_consistency") = FZero)
        /\ (scorer = "calculate_readability_level"
              /\ Split(CleanText(FullText(args))) = <<>>) =>
                 /\ Metric("flesch_kincaid_grade") = FZero
                 /\ Metric("flesch_reading_ease") = FZero
                 /\ Metric("avg_sentence_length") = FZero
                 /\ Metric("avg_syllables_per_word") = FZero
        /\ (scorer = "calculate_dps"
              /\ (OtherOptions(args) = <<>>
                    \/ (WordSet(args.question) = {} /\ NoWords(args.options)))) =>
                 Metric("DPS") = FZero
        /\ (scorer = "calculate_distractor_quality_detailed"
              /\ OtherOptions(args) = <<>>) =>
                 Metric("distractor_quality_detailed") = FZero
        /\ (scorer = "calculate_distractor_quality_detailed"
              /\ OtherOptions(args) # <<>> /\ NoWords(args.options)) =>
                 /\ Metric("avg_length") = FZero
                 /\ Metric("length_variance") = FZero
                 /\ Metric("keyword_relevance") = FZero
        /\ (scorer = "calculate_sos"
              /\ (Len(args.options) < 2 \/ NoWords(args.options))) =>
                 Metric("SOS") = FZero
        /\ (scorer = "calculate_rationale_quality" /\ args.explanation = <<>>) =>
                 Metric("rationale_quality") = FZero

\* a question of stop words only, with no option, scored against a
\* knowledge base
C17_Witness ==
    /\ scorer = "calculate_relevance"
    /\ args.question = OnlyStopWords
    /\ args.options = <<>>
    /\ args.knowledge_base = Some(CellNotes)
    /\ Metric("relevance") = FZero
    /\ NoZeroDivision(metrics[1])

-----------------------------------------------------------------------------
(* Claims about the questions that cannot be scored *)

\* the i-th question parsed from the questions file
ParsedQuestion(i) == ParsedQuestions(files.questions)[i]

Unscorable(question_data) ==
    question_data.correct_answer = None \/ Len(question_data.options) < 4

AnswerDependentMetrics ==
    {"DPS", "DPS_per_distractor", "num_distractors",
     "distractor_quality_detailed"}

\* C18: for a parsed question with no answer or with fewer than four
\* options, evaluate_question_comprehensive returns no DPS and no detailed
\* distractor quality and raises nothing, and evaluate_session_questions
\* computes no DPS for it
C18_UnscorableSkipped ==
    /\ aggregate # None =>
          \A i \in 1..Len(aggregate[1].per_question_results) :
              Unscorable(ParsedQuestion(i)) =>
                  /\ AnswerDependentMetrics
                       \cap DOMAIN aggregate[1].per_question_results[i] = {}
                  /\ NoZeroDivision(aggregate[1].per_question_results[i])
    /\ session # None =>
          \A i \in 1..Len(session[1].scores) :
              Unscorable(ParsedQuestion(i)) =>
                  session[1].scores[i].dps_result = NoMetrics

\* the metrics that are counts, lengths or readability grades
RawMetrics ==
    {"word_count", "num_distractors", "num_pairs", "avg_length",
     "length_variance", "flesch_kincaid_grade", "flesch_reading_ease",
     "avg_sentence_length", "avg_syllables_per_word"}

InUnitInterval(x) == FLe(FZero, x) /\ FLe(x, FOne)

\* C19: every score a scorer returns, the counts, lengths and readability
\* grades aside, lies in [0, 1], the scores in a returned list as well
C19_ScoresInUnitInterval ==
    scorer # "none" =>
        \A key \in DOMAIN metrics[1] \ RawMetrics :
            /\ InUnitInterval(metrics[1][key].number)
            /\ \A i \in 1..Len(metrics[1][key].list) :
                  InUnitInterval(metrics[1][key].list[i])

(* Claims about the clarity of a question *)

\* 0.20*length + 0.15*questionMark + 0.15*singleQuestion + 0.20*ambiguity
\* + 0.15*interrogative + 0.15*negation of the scores of a dict, added from
\* the left
ClarityOfScores(result) ==
    FAdd(FAdd(FAdd(FAdd(FAdd(FMul(FRatio(20, 100), result["length_score"].number),
                             FMul(FRatio(15, 100),
                                  result["question_mark_score"].number)),
                        FMul(FRatio(15, 100),
                             result["single_question_score"].number)),
                   FMul(FRatio(20, 100), result["ambiguity_score"].number)),
              FMul(FRatio(15, 100), result["interrogative_score"].number)),
         FMul(FRatio(15, 100), result["negation_clarity"].number))

\* no text of the set occurs in the question, whatever the case
NoneOccurs(question_text, texts) ==
    \A text \in texts : ~Contains(LowerText(question_text), text)

\* a question of 5 to 9 words with exactly one '?', an interrogative among
\* its first five words, no ambiguous word and no negation
PlainShortQuestion(question_text) ==
    /\ Len(Split(question_text)) \in 5..9
    /\ Cardinality({i \in 1..Len(question_text) : question_text[i] = "?"}) = 1
    /\ \E i \in 1..5 :
          /\ i <= Len(Split(question_text))
          /\ LowerText(Split(question_text)[i]) \in interrogatives
    /\ NoneOccurs(question_text, ambiguous_words)
    /\ NoneOccurs(question_text, Range(negations))

\* C20: the clarity calculate_clarity returns is 0.20*length +
\* 0.15*questionMark + 0.15*singleQuestion + 0.20*ambiguity +
\* 0.15*interrogative + 0.15*negation of the component scores it returns,
\* and for a question of 5 to 9 words with exactly one '?', an interrogative
\* among its first five words, no ambiguous word and no negation, the length
\* score is 0.7, every other component is 1.0 and the clarity is at least 0.7
C20_ClarityIsWeightedSum ==
    scorer = "calculate_clarity" =>
        /\ Metric("clarity") = ClarityOfScores(metrics[1])
        /\ PlainShortQuestion(args.question) =>
              /\ Metric("length_score") = FRatio(7, 10)
              /\ \A name \in {"question_mark_score", "single_question_score",
                              "ambiguity_score", "interrogative_score",
                              "negation_clarity"} : Metric(name) = FOne
              /\ FLe(FRatio(7, 10), Metric("clarity"))

C20_Witness ==
    /\ scorer = "calculate_clarity"
    /\ args.question = WhatIsFooBar
    /\ PlainShortQuestion(args.question)
    /\ Metric("word_count") = FInt(9)
    /\ Metric("clarity") = FRatio(94, 100)

-----------------------------------------------------------------------------
\* the fields of a profile that record the learner's performance
Performance(p) ==
    <<p.performance_history, p.response_times, p.topics_mastery,
      p.accuracy_rate, p.confidence_scores, p.skill_level>>

\* C21: once the profile object exists, its performance_history,
\* response_times, topics_mastery, accuracy_rate, confidence_scores and
\* skill_level change only in a step of add_response (load hands the session
\* a new object), and a step of get_stats or save leaves every field of the
\* profile as it was.
C21_MutatedOnlyByAddResponse ==
    [][ /\ Performance(profile') # Performance(profile)
            => op' \in {"add_response", "load"}
        /\ op' \in {"get_stats", "save"} => profile' = profile ]_vars

\* save has written a profile that holds a response, and left it as it was
C21_Witness ==
    /\ op = "save"
    /\ raised = "none"
    /\ ret = None
    /\ profile.performance_history # <<>>
    /\ disk = File(JsonDump(profile))

-----------------------------------------------------------------------------
\* the profiles that the bound names stand for
ValueOf(holder) == Value(heap, objects[holder])

\* C22: two UserProfile objects, created or loaded, share no list or dict,
\* and a step of add_response on one of them leaves the other's profile, with
\* the contents of its lists and dicts, as it was.
C22_ObjectsShareNothing ==
    /\ [][op' = "add_response" =>
            \A u, v \in DOMAIN objects :
                u # v /\ ValueOf(u)' # ValueOf(u) => ValueOf(v)' = ValueOf(v)]_vars
    /\ [](\A u, v \in DOMAIN objects :
            u # v => Range(CellsOf(objects[u])) \cap Range(CellsOf(objects[v])) = {})

\* a loaded profile and a created one are both bound, and add_response has
\* recorded a response in the created one after that
C22_Witness ==
    /\ op = "add_response"
    /\ DOMAIN objects = Holders
    /\ ValueOf("profile").performance_history # <<>>
    /\ ValueOf("profile").user_id = "bob"
    /\ Len(ValueOf("user_profile").performance_history) = 1
    /\ ValueOf("user_profile").user_id = "alice"
    /\ ValueOf("profile").performance_history[1].timestamp = 1

-----------------------------------------------------------------------------
\* clamp(x, lo, hi)
Clamp(x, lo, hi) == RMax(lo, RMin(hi, x))

\* the mean of a non-empty list of times
Mean(times) == RDiv(R(SumSeq(times)), R(Len(times)))

\* 0.8 for easy, 1.2 for hard, 1.0 otherwise
MultiplierOf(difficulty) ==
    CASE difficulty = "easy" -> <<4, 5>>
      [] difficulty = "hard" -> <<6, 5>>
      [] OTHER -> <<1, 1>>

\* confidence / 5.0 for a confidence that is given and not 0, else 1.0
ConfidenceFactorOf(confidence) ==
    IF confidence # None /\ confidence[1] # 0
    THEN <<confidence[1], 5>> ELSE <<1, 1>>

\* clamp(old + 30 * multiplier * time_factor * confidence_factor, 800, 2200)
\* with time_factor = clamp(avg / time_taken, 0.5, 1.5), avg the mean of times
SkillAfterCorrect(old, times, e) ==
    LET avg == Mean(times)
        time_factor == Clamp(RDiv(avg, R(e.time_taken)), <<1, 2>>, <<3, 2>>)
        change == RMul(RMul(RMul(R(30), MultiplierOf(e.difficulty)), time_factor),
                       ConfidenceFactorOf(e.confidence))
    IN  Clamp(RAdd(old, change), R(800), R(2200))

\* C23: add_response for a correct response with time_taken > 0 sets
\* skill_level to clamp(old + 30 * multiplier * time_factor *
\* confidence_factor, 800, 2200), with time_factor = clamp(avg / time_taken,
\* 0.5, 1.5) and avg the mean of response_times with this call's time_taken
\* already appended.
C23_CorrectResponseSkill ==
    [][ (op' = "add_response" /\ LastEvent(profile').correct
         /\ LastEvent(profile').time_taken > 0) =>
            /\ raised' = "none"
            /\ profile'.response_times
                 = Append(profile.response_times, LastEvent(profile').time_taken)
            /\ profile'.skill_level
                 = SkillAfterCorrect(profile.skill_level, profile'.response_times,
                                     LastEvent(profile')) ]_vars

\* a correct hard response in 4 s after one in 1 s: avg 2.5, time_factor
\* 0.625, and 1500 - 36 + 22.5
C23_Witness ==
    /\ op = "add_response"
    /\ raised = "none"
    /\ Len(History) = 2
    /\ ~History[1].correct /\ History[1].time_taken = 1
    /\ History[1].difficulty = "hard" /\ History[1].confidence = None
    /\ History[2].correct /\ History[2].time_taken = 4
    /\ History[2].difficulty = "hard" /\ History[2].confidence = None
    /\ profile.skill_level = <<2973, 2>>

-----------------------------------------------------------------------------
\* lists of response times a profile may hold when add_response appends
OtherTimes == {<<4>>, <<-1, 0, 1>>}

\* clamp(old - 30 * multiplier * confidence_factor, 800, 2200)
SkillAfterIncorrect(old, e) ==
    LET change == RMul(RMul(R(30), MultiplierOf(e.difficulty)),
                       ConfidenceFactorOf(e.confidence))
    IN  Clamp(RAdd(old, RNeg(change)), R(800), R(2200))

\* the incorrect response e takes the skill of p to new whatever response
\* times p holds and whatever time the response took
SameForAllTimes(p, e, new) ==
    \A times \in OtherTimes, time_taken \in AnyTimes :
        UpdateSkillLevel([p EXCEPT !.response_times = times],
                         FALSE, e.difficulty, time_taken, e.confidence) = new

\* C24: add_response for an incorrect response sets skill_level to
\* clamp(old - 30 * multiplier * confidence_factor, 800, 2200); the result
\* depends neither on time_taken nor on the response times recorded earlier,
\* so profiles that differ only in their response times get the same change.
C24_IncorrectResponseSkill ==
    [][ (op' = "add_response" /\ ~LastEvent(profile').correct) =>
            /\ raised' = "none"
            /\ profile'.skill_level
                 = SkillAfterIncorrect(profile.skill_level, LastEvent(profile'))
            /\ SameForAllTimes(profile, LastEvent(profile'),
                               profile'.skill_level) ]_vars

\* two incorrect hard responses, in 1 s and then in 4 s, where the time
\* factor of a correct response would be 0.625: 1500 - 36 - 36
C24_Witness ==
    /\ op = "add_response"
    /\ raised = "none"
    /\ Len(History) = 2
    /\ ~History[1].correct /\ History[1].time_taken = 1
    /\ History[1].difficulty = "hard" /\ History[1].confidence = None
    /\ ~History[2].correct /\ History[2].time_taken = 4
    /\ History[2].difficulty = "hard" /\ History[2].confidence = None
    /\ profile.skill_level = R(1428)

-----------------------------------------------------------------------------
\* the responses recorded with a confidence value
WithConfidence(history) ==
    {i \in 1..Len(history) : history[i].confidence # None}

\* C25: every add_response call that is given a confidence appends it to
\* confidence_scores, so that len(confidence_scores) is the number of
\* responses recorded with a confidence value.
C25_ConfidenceScoresCount ==
    Len(profile.confidence_scores) = Cardinality(WithConfidence(History))

-----------------------------------------------------------------------------
\* C30: an add_response call with time_taken >= 0 and a confidence in 1..5
\* or none never lowers skill_level when the response is correct and never
\* raises it when the response is incorrect.
C30_SkillMovesWithCorrectness ==
    [][ (/\ op' = "add_response"
         /\ LastEvent(profile').time_taken >= 0
         /\ \/ LastEvent(profile').confidence = None
            \/ LastEvent(profile').confidence[1] \in 1..5) =>
            /\ raised' = "none"
            /\ LastEvent(profile').correct
                 => RLe(profile.skill_level, profile'.skill_level)
            /\ ~LastEvent(profile').correct
                 => RLe(profile'.skill_level, profile.skill_level) ]_vars

\* a correct easy response raised the skill to 1514.4, then an incorrect
\* hard one lowered it to 1492.8
C30_Witness ==
    /\ op = "add_response"
    /\ Len(History) = 2
    /\ History[1].correct /\ History[1].difficulty = "easy"
    /\ History[1].time_taken = 1 /\ History[1].confidence = Some(3)
    /\ ~History[2].correct /\ History[2].difficulty = "hard"
    /\ History[2].time_taken = 4 /\ History[2].confidence = Some(3)
    /\ profile.skill_level = <<7464, 5>>

-----------------------------------------------------------------------------
\* C26: when the question has no correct_answer, the result of
\* evaluate_question_comprehensive holds no metric scored against an option
\* taken as the answer: no distractor score, and an answer_reference that is
\* the one calculate_rationale_quality gives for no answer, 0.0.
C26_NoAnswerGuessed ==
    (scorer = "evaluate_question_comprehensive" /\ args.correct_answer = None) =>
        /\ ~Returned("DPS")
        /\ ~Returned("distractor_quality_detailed")
        /\ Returned("answer_reference") =>
             /\ Metric("answer_reference") = FZero
             /\ metrics[1]
                  = Update(metrics[1],
                           RationaleQualityMetrics(args.explanation, args.question,
                                                   <<>>))

-----------------------------------------------------------------------------
\* the options at the positions other than position (counted from 1), in
\* their order
OptionsBut(options, position) ==
    [i \in 1..(Len(options) - 1) |->
        IF i < position THEN options[i] ELSE options[i + 1]]

\* the position the answer letter names, counted from 1
PositionOf(correct_answer) ==
    CASE correct_answer = Some("A") -> 1
      [] correct_answer = Some("B") -> 2
      [] correct_answer = Some("C") -> 3
      [] correct_answer = Some("D") -> 4

\* C27: when correct_answer names a position within the options, the
\* distractors evaluate_question_comprehensive scores are the other options
\* in their original order, len(options) - 1 of them, and the distractor
\* metrics of its result are the ones the two distractor scorers give for
\* them; when the position is outside the options no distractor metric is
\* in the result.
C27_DistractorsAreOtherOptions ==
    (/\ scorer = "evaluate_question_comprehensive"
     /\ args.options # <<>>
     /\ args.correct_answer # None) =>
        LET position == PositionOf(args.correct_answer)
            others   == OptionsBut(args.options, position)
            scored   == Update(DpsMetrics(args.question, args.options[position],
                                          others),
                               DistractorQualityMetrics(
                                   args.question, args.options[position], others))
        IN  IF position <= Len(args.options)
            THEN /\ Distractors(args.options, position - 1) = others
                 /\ Len(others) = Len(args.options) - 1
                 /\ Returned("num_distractors") =>
                        Metric("num_distractors") = FInt(Len(args.options) - 1)
                 /\ Returned("DPS")
                 /\ [name \in DOMAIN scored |-> metrics[1][name]] = scored
            ELSE /\ ~Returned("DPS")
                 /\ ~Returned("distractor_quality_detailed")
                 /\ ~Returned("num_distractors")

\* answer C of four options: the distractors are options A, B and D
C27_Witness ==
    /\ scorer = "evaluate_question_comprehensive"
    /\ args.correct_answer = Some("C")
    /\ Len(args.options) = 4
    /\ args.options[3] # args.options[1]
    /\ Returned("DPS")
    /\ Metric("num_distractors") = FInt(3)

-----------------------------------------------------------------------------
\* C29: every key of the bundle evaluate_question_comprehensive returns
\* holds the value of the sub-scorer that produced it; length_score and
\* word_count are those calculate_clarity gives for the question text,
\* with or without an explanation.
C29_ClarityKeysKept ==
    (scorer = "evaluate_question_comprehensive" /\ args.question # <<>>) =>
        /\ metrics[1]["length_score"]
             = ClarityMetrics(args.question)["length_score"]
        /\ metrics[1]["word_count"] = ClarityMetrics(args.question)["word_count"]

-----------------------------------------------------------------------------
\* C28: a run of interactive_user_session that recorded a response with
\* add_response has called save() on the profile by the time it is left,
\* whichever way it ends.
C28_RecordedThenSaved ==
    (run # None /\ run.pc \in {"returned", "raised"} /\ run.recorded > 0)
        => run.saved

====
